---- MODULE Spec2Model ----
(***************************************************************************)
(* Model of the complete web scraper (main.py): the signature-based        *)
(* technology detector, the six fact scorers and the code around them.     *)
(*                                                                         *)
(* Text is modelled as a sequence of lines.  re.search(regex, text,        *)
(* re.IGNORECASE) is modelled by SearchHits, the table of the catalogue    *)
(* regexes that Python's re finds in each line of the vocabulary; no       *)
(* catalogue regex matches across two lines of the vocabulary.             *)
(***************************************************************************)
EXTENDS Integers, Sequences, FiniteSets, TLC

VARIABLES
  html_content,   \* detect: the page HTML, a sequence of lines (original case)
  headers,        \* detect: the response header mapping
  js_data,        \* detect: the JavaScript snapshot [frameworks, libraries]
  pc,             \* position of the running function
  order,          \* detect: self.tech_signatures as positions of the catalogue
  idx,            \* detect: index in self.tech_signatures of the next signature
  detected,       \* detect: the local mapping name -> Detection (line 677)
  confidence,     \* detect: local of the iteration that ran last (line 681)
  evidence,       \* detect: local of the iteration that ran last (line 682)
  version,        \* detect: local of the iteration that ran last (line 683)
  scorer,         \* scoring: the scorer the facts are for
  facts,          \* scoring: the analysis record handed to the scorer
  raw,            \* scoring: the local score before the final min(score, 100)
  score,          \* scoring: the value the scorer returned
  is_ssl,         \* page_info['is_ssl']: the final URL starts with https://
  tech_stack,     \* the report of _analyze_tech_stack
  key_findings,   \* summary['key_findings'] of _create_summary
  recommendations, \* the list _generate_recommendations returned
  overall_scores, \* summary['overall_scores'] of _create_summary
  log,            \* the calls made so far: function, input and output
  urls,           \* batch: request.urls
  url_index,      \* batch: position in request.urls of the loop
  results,        \* batch: the local results
  batch_response, \* batch: the dict returned (lines 1765-1771)
  page,           \* analysis: the local page of the call that ran last
  open_pages,     \* the pages of self.context that are open
  attempts,       \* analysis: the page.goto calls made and how they ended
  response,       \* analysis: the local response
  extracted,      \* analysis: the lines after the navigation were reached
  error           \* analysis: the exception raised in the call, or by it

vars == <<html_content, headers, js_data, pc, order, idx, detected, confidence,
          evidence, version, scorer, facts, raw, score, is_ssl, tech_stack,
          key_findings, recommendations, overall_scores, log, urls,
          url_index, results, batch_response, page, open_pages, attempts,
          response, extracted, error>>

detectVars == <<html_content, headers, js_data, order, idx, detected,
                confidence, evidence, version>>
scoreVars == <<scorer, facts, raw, score>>
summaryVars == <<overall_scores, log>>
batchVars == <<urls, url_index, results, batch_response>>
pageVars == <<page, open_pages, attempts, response, extracted, error>>
serverVars == <<summaryVars, batchVars, pageVars>>
reportVars == <<is_ssl, tech_stack, key_findings, recommendations,
                serverVars>>

\* Python's None.
None == "<None>"

Min(a, b) == IF a <= b THEN a ELSE b

EmptyMap == [k \in {} |-> None]

(***************************************************************************)
(* The signature catalogue, _load_tech_signatures.  version_patterns is    *)
(* <<>> where the source leaves it None.                                   *)
(***************************************************************************)
tech_signatures ==
  << [name |-> "WordPress", category |-> "cms",
      patterns |-> <<"/wp-content/", "/wp-includes/", "/wp-admin/", "wp-json", "wordpress">>,
      confidence_indicators |-> <<"generator.*wordpress", "wp-content", "wp-includes", "rest_route">>,
      version_patterns |-> <<"WordPress (\\d+\\.\\d+(?:\\.\\d+)?)">>],
     [name |-> "Drupal", category |-> "cms",
      patterns |-> <<"/sites/default/", "/modules/", "/themes/", "drupal", "Drupal.settings">>,
      confidence_indicators |-> <<"generator.*drupal", "sites/default", "Drupal.settings">>,
      version_patterns |-> <<"Drupal (\\d+\\.\\d+(?:\\.\\d+)?)">>],
     [name |-> "Joomla", category |-> "cms",
      patterns |-> <<"/components/", "/modules/", "/templates/", "joomla", "option=com_">>,
      confidence_indicators |-> <<"generator.*joomla", "option=com_", "components/">>,
      version_patterns |-> <<"Joomla! (\\d+\\.\\d+(?:\\.\\d+)?)">>],
     [name |-> "Shopify", category |-> "cms",
      patterns |-> <<"shopify", "myshopify.com", "cdn.shopify.com", "Shopify.theme">>,
      confidence_indicators |-> <<"Shopify.theme", "shopify-analytics", "myshopify.com">>,
      version_patterns |-> <<>>],
     [name |-> "Magento", category |-> "cms",
      patterns |-> <<"magento", "/skin/frontend/", "/js/mage/", "Mage.Cookies">>,
      confidence_indicators |-> <<"Mage.Cookies", "skin/frontend", "js/mage">>,
      version_patterns |-> <<>>],
     [name |-> "WooCommerce", category |-> "cms",
      patterns |-> <<"woocommerce", "wc-", "wp-content/plugins/woocommerce">>,
      confidence_indicators |-> <<"woocommerce", "wc-ajax", "plugins/woocommerce">>,
      version_patterns |-> <<>>],
     [name |-> "React", category |-> "framework",
      patterns |-> <<"react", "_react", "React\\.", "__REACT_DEVTOOLS_">>,
      confidence_indicators |-> <<"data-reactroot", "__REACT_DEVTOOLS_", "React.", "_react">>,
      version_patterns |-> <<>>],
     [name |-> "Vue.js", category |-> "framework",
      patterns |-> <<"vue", "Vue\\.", "__VUE__", "v-">>,
      confidence_indicators |-> <<"__VUE__", "Vue.", "data-v-", "vue.js">>,
      version_patterns |-> <<"Vue\\.js v(\\d+\\.\\d+\\.\\d+)">>],
     [name |-> "Angular", category |-> "framework",
      patterns |-> <<"angular", "ng-", "Angular\\.", "__ng">>,
      confidence_indicators |-> <<"ng-version", "ng-app", "angular.js", "_angular">>,
      version_patterns |-> <<>>],
     [name |-> "Next.js", category |-> "framework",
      patterns |-> <<"next\\.js", "_next/", "__NEXT_DATA__", "next-route">>,
      confidence_indicators |-> <<"__NEXT_DATA__", "_next/", "next-route">>,
      version_patterns |-> <<>>],
     [name |-> "Nuxt.js", category |-> "framework",
      patterns |-> <<"nuxt", "_nuxt/", "__NUXT__">>,
      confidence_indicators |-> <<"__NUXT__", "_nuxt/", "nuxt.js">>,
      version_patterns |-> <<>>],
     [name |-> "Bootstrap", category |-> "css_framework",
      patterns |-> <<"bootstrap", "btn-", "col-", "container-">>,
      confidence_indicators |-> <<"bootstrap.css", "bootstrap.min.css", "btn-primary">>,
      version_patterns |-> <<"Bootstrap v(\\d+\\.\\d+\\.\\d+)">>],
     [name |-> "Tailwind CSS", category |-> "css_framework",
      patterns |-> <<"tailwind", "tw-", "bg-\\w+-\\d+", "text-\\w+-\\d+">>,
      confidence_indicators |-> <<"tailwindcss", "bg-blue-500", "text-gray-900">>,
      version_patterns |-> <<>>],
     [name |-> "Foundation", category |-> "css_framework",
      patterns |-> <<"foundation", "grid-x", "cell-">>,
      confidence_indicators |-> <<"foundation.css", "grid-x", "foundation.js">>,
      version_patterns |-> <<>>],
     [name |-> "Google Analytics", category |-> "analytics",
      patterns |-> <<"google-analytics", "gtag\\(", "ga\\(", "GoogleAnalyticsObject", "UA-\\d+-\\d+", "G-[A-Z0-9]+">>,
      confidence_indicators |-> <<"gtag(", "GoogleAnalyticsObject", "google-analytics.com">>,
      version_patterns |-> <<>>],
     [name |-> "Google Tag Manager", category |-> "analytics",
      patterns |-> <<"gtm\\.js", "googletagmanager", "GTM-[A-Z0-9]+", "dataLayer">>,
      confidence_indicators |-> <<"googletagmanager.com", "GTM-", "dataLayer">>,
      version_patterns |-> <<>>],
     [name |-> "Facebook Pixel", category |-> "analytics",
      patterns |-> <<"fbevents\\.js", "facebook\\.net", "connect\\.facebook\\.net", "fbq\\(">>,
      confidence_indicators |-> <<"fbevents.js", "connect.facebook.net", "fbq(">>,
      version_patterns |-> <<>>],
     [name |-> "Hotjar", category |-> "analytics",
      patterns |-> <<"hotjar", "static\\.hotjar\\.com", "hj\\(">>,
      confidence_indicators |-> <<"static.hotjar.com", "hj(", "hotjar">>,
      version_patterns |-> <<>>],
     [name |-> "Yoast SEO", category |-> "seo",
      patterns |-> <<"yoast", "wp-seo", "wpseo">>,
      confidence_indicators |-> <<"Yoast SEO", "wp-seo", "wpseo">>,
      version_patterns |-> <<>>],
     [name |-> "RankMath", category |-> "seo",
      patterns |-> <<"rank-math", "rankmath">>,
      confidence_indicators |-> <<"rank-math", "rankmath">>,
      version_patterns |-> <<>>],
     [name |-> "All in One SEO", category |-> "seo",
      patterns |-> <<"aioseop", "all-in-one-seo">>,
      confidence_indicators |-> <<"aioseop", "all-in-one-seo">>,
      version_patterns |-> <<>>],
     [name |-> "jQuery", category |-> "library",
      patterns |-> <<"jquery", "jQuery", "\\$\\.">>,
      confidence_indicators |-> <<"jquery.js", "jQuery", "jquery.min.js">>,
      version_patterns |-> <<"jQuery v(\\d+\\.\\d+\\.\\d+)">>],
     [name |-> "Lodash", category |-> "library",
      patterns |-> <<"lodash", "_\\.">>,
      confidence_indicators |-> <<"lodash.js", "lodash.min.js">>,
      version_patterns |-> <<>>],
     [name |-> "D3.js", category |-> "library",
      patterns |-> <<"d3\\.js", "d3\\.min\\.js", "d3\\.">>,
      confidence_indicators |-> <<"d3.js", "d3.min.js">>,
      version_patterns |-> <<>>],
     [name |-> "Cloudflare", category |-> "cdn",
      patterns |-> <<"cloudflare", "cf-ray", "__cfduid">>,
      confidence_indicators |-> <<"cf-ray", "cloudflare", "__cfduid">>,
      version_patterns |-> <<>>],
     [name |-> "Amazon CloudFront", category |-> "cdn",
      patterns |-> <<"cloudfront", "amazonaws\\.com">>,
      confidence_indicators |-> <<"cloudfront.net", "amazonaws.com">>,
      version_patterns |-> <<>>],
     [name |-> "WP Rocket", category |-> "performance",
      patterns |-> <<"wp-rocket", "wpr_">>,
      confidence_indicators |-> <<"wp-rocket", "wpr_">>,
      version_patterns |-> <<>>],
     [name |-> "W3 Total Cache", category |-> "performance",
      patterns |-> <<"w3tc", "w3-total-cache">>,
      confidence_indicators |-> <<"w3tc", "w3-total-cache">>,
      version_patterns |-> <<>>] >>

\* The catalogue regexes that re.compile rejects ("missing ), unterminated
\* subpattern"): re.search raises re.error for them, whatever the text.
MalformedRegex == {"gtag(", "fbq(", "hj("}

\* str.lower() on the lines of the vocabulary; every other line of the
\* vocabulary holds no upper-case letter.
lower(s) ==
  CASE s = "WordPress 5.9" -> "wordpress 5.9"
    [] s = "Bootstrap v4.6.2" -> "bootstrap v4.6.2"
    [] s = "x-generator: Drupal 9.5" -> "x-generator: drupal 9.5"
    [] OTHER -> s

\* The catalogue regexes that re.search(regex, line, re.IGNORECASE) finds in a
\* line of the vocabulary.
SearchHits(line) ==
  CASE line = "/wp-content/themes/x.css" ->
         {"/wp-content/", "wp-content", "/themes/"}
    [] line = "wp-includes" ->
         {"wp-includes"}
    [] line = "WordPress 5.9" ->
         {"wordpress", "WordPress (\\d+\\.\\d+(?:\\.\\d+)?)"}
    [] line = "Bootstrap v4.6.2" ->
         {"bootstrap", "Bootstrap v(\\d+\\.\\d+\\.\\d+)"}
    [] line = "data-reactroot" ->
         {"react", "data-reactroot", "React."}
    [] line = "wordpress 5.9" ->
         {"wordpress", "WordPress (\\d+\\.\\d+(?:\\.\\d+)?)"}
    [] line = "bootstrap v4.6.2" ->
         {"bootstrap", "Bootstrap v(\\d+\\.\\d+\\.\\d+)"}
    [] line = "x-generator: Drupal 9.5" ->
         {"drupal", "generator.*drupal", "Drupal (\\d+\\.\\d+(?:\\.\\d+)?)"}
    [] line = "x-generator: drupal 9.5" ->
         {"drupal", "generator.*drupal", "Drupal (\\d+\\.\\d+(?:\\.\\d+)?)"}
    [] OTHER -> {}

\* match.group(1) of re.search(regex, line, re.IGNORECASE) for the version
\* patterns of the catalogue.
Group1(regex, line) ==
  CASE regex = "WordPress (\\d+\\.\\d+(?:\\.\\d+)?)" /\ line = "WordPress 5.9" -> "5.9"
    [] regex = "Bootstrap v(\\d+\\.\\d+\\.\\d+)" /\ line = "Bootstrap v4.6.2" -> "4.6.2"
    [] regex = "WordPress (\\d+\\.\\d+(?:\\.\\d+)?)" /\ line = "wordpress 5.9" -> "5.9"
    [] regex = "Bootstrap v(\\d+\\.\\d+\\.\\d+)" /\ line = "bootstrap v4.6.2" -> "4.6.2"
    [] regex = "Drupal (\\d+\\.\\d+(?:\\.\\d+)?)" /\ line = "x-generator: Drupal 9.5" -> "9.5"
    [] regex = "Drupal (\\d+\\.\\d+(?:\\.\\d+)?)" /\ line = "x-generator: drupal 9.5" -> "9.5"
    [] OTHER -> ""

(***************************************************************************)
(* Bounds of the inputs.                                                   *)
(***************************************************************************)
MaxLines == 2      \* lines of HTML in a page
MaxGlobals == 1    \* keys in each map of the JavaScript snapshot

\* Lines a page may hold.
HtmlLines ==
  {"/wp-content/themes/x.css", "wp-includes",
   "WordPress 5.9", "Bootstrap v4.6.2", "data-reactroot"}

\* Pages: sequences of distinct lines.
HtmlPages ==
  {h \in UNION {[1..n -> HtmlLines] : n \in 0..MaxLines} :
     \A i, j \in DOMAIN h : i # j => h[i] # h[j]}

\* Response header mappings (names are lower case, as the browser gives them).
HeaderNames == <<"server", "x-generator">>
HeaderMaps ==
  {EmptyMap,
   [k \in {"server"} |-> "nginx"],
   [k \in {"server", "x-generator"} |->
      IF k = "server" THEN "nginx" ELSE "Drupal 9.5"]}

\* JavaScript snapshots: each map takes names to a version or the marker
\* 'detected', never to an empty value.
JsNames == {"React", "Bootstrap"}
JsValues == {"detected", "5.3.0"}
JsMaps ==
  UNION {[K -> JsValues] :
           K \in {K \in SUBSET JsNames : Cardinality(K) <= MaxGlobals}}
JsSnapshots == [frameworks : JsMaps, libraries : JsMaps]

(***************************************************************************)
(* _detect_technologies                                                    *)
(***************************************************************************)
PatternWeight == 25
IndicatorWeight == 30
JsGlobalWeight == 40
Threshold == 40
MaxConfidence == 100
EvidenceLimit == 3

\* ' '.join(f"{k}: {v}" for k, v in headers.items()), one line per header.
RECURSIVE HeaderLines(_, _)
HeaderLines(h, i) ==
  IF i > Len(HeaderNames) THEN <<>>
  ELSE (IF HeaderNames[i] \in DOMAIN h
          THEN <<HeaderNames[i] \o ": " \o h[HeaderNames[i]]>>
          ELSE <<>>) \o HeaderLines(h, i + 1)

LowerAll(lines) == [i \in DOMAIN lines |-> lower(lines[i])]

\* combined_text (line 678): the lower-cased HTML, then the lower-cased headers.
combined_text(html, h) == LowerAll(html) \o LowerAll(HeaderLines(h, 1))

\* re.search(regex, text, re.IGNORECASE): "error" when the regex does not
\* compile, else whether a match exists.
re_search(regex, text) ==
  IF regex \in MalformedRegex THEN "error"
  ELSE IF \E i \in DOMAIN text : regex \in SearchHits(text[i]) THEN "match"
  ELSE "none"

\* The first line of the text the regex matches (the leftmost match).
FirstMatch(regex, text) ==
  CHOOSE i \in DOMAIN text :
    /\ regex \in SearchHits(text[i])
    /\ \A j \in 1..(i - 1) : regex \notin SearchHits(text[j])

\* The loop with a break after the first match.
RECURSIVE ScanRegexesBreak(_, _, _, _, _, _)
ScanRegexesBreak(regexes, i, text, weight, label, st) ==
  IF st.raised \/ i > Len(regexes) THEN st
  ELSE LET r == re_search(regexes[i], text)
       IN  IF r = "error" THEN [st EXCEPT !.raised = TRUE]
           ELSE IF r = "match"
             THEN [st EXCEPT !.confidence = @ + weight,
                             !.evidence = Append(@, label \o regexes[i])]
           ELSE ScanRegexesBreak(regexes, i + 1, text, weight, label, st)

\* The loops of lines 686-689 and 692-695 from position i on: st is
\* [raised, confidence, evidence]; an re.error leaves the loop at once.
RECURSIVE ScanRegexes(_, _, _, _, _, _)
ScanRegexes(regexes, i, text, weight, label, st) ==
  IF st.raised \/ i > Len(regexes) THEN st
  ELSE LET r == re_search(regexes[i], text)
       IN  ScanRegexes(regexes, i + 1, text, weight, label,
             IF r = "error" THEN [st EXCEPT !.raised = TRUE]
             ELSE IF r = "match"
               THEN [st EXCEPT !.confidence = @ + weight,
                               !.evidence = Append(@, label \o regexes[i])]
             ELSE st)

\* The two maps tested by two independent ifs.
CheckJsGlobalsTwice(name, js, st) ==
  LET a == IF name \in DOMAIN js.frameworks
             THEN [st EXCEPT !.confidence = @ + JsGlobalWeight,
                             !.version = js.frameworks[name],
                             !.evidence = Append(@, "JavaScript global detected")]
             ELSE st
  IN  IF name \in DOMAIN js.libraries
        THEN [a EXCEPT !.confidence = @ + JsGlobalWeight,
                       !.version = js.libraries[name],
                       !.evidence = Append(@, "JavaScript global detected")]
        ELSE a

\* Lines 697-705: the JavaScript globals, frameworks before libraries.
CheckJsGlobals(name, js, st) ==
  IF name \in DOMAIN js.frameworks
    THEN [st EXCEPT !.confidence = @ + JsGlobalWeight,
                    !.version = js.frameworks[name],
                    !.evidence = Append(@, "JavaScript global detected")]
  ELSE IF name \in DOMAIN js.libraries
    THEN [st EXCEPT !.confidence = @ + JsGlobalWeight,
                    !.version = js.libraries[name],
                    !.evidence = Append(@, "JavaScript global detected")]
  ELSE st

\* The version patterns searched in combined_text.
VersionTextCombined(html, h) == combined_text(html, h)

\* The text the version patterns are searched in (line 710).
VersionText(html, h) == html

\* Python's truth value of version.
Falsy(v) == v = None \/ v = ""

\* Lines 708-714 from pattern i on: the first pattern that matches sets the
\* version and ends the loop.
RECURSIVE VersionDetection(_, _, _, _)
VersionDetection(vps, i, text, st) ==
  IF st.raised \/ i > Len(vps) THEN st
  ELSE LET r == re_search(vps[i], text)
       IN  IF r = "error" THEN [st EXCEPT !.raised = TRUE]
           ELSE IF r = "match"
             THEN LET v == Group1(vps[i], text[FirstMatch(vps[i], text)])
                  IN  [st EXCEPT !.version = v,
                                 !.evidence = Append(@, "Version found: " \o v)]
           ELSE VersionDetection(vps, i + 1, text, st)

\* One iteration of the loop of line 680 up to the test of line 716:
\* [raised, confidence, evidence, version].
EvaluateSignature(sig, html, h, js) ==
  LET text == combined_text(html, h)
      s0 == [raised |-> FALSE, confidence |-> 0, evidence |-> <<>>,
             version |-> None]
      s1 == ScanRegexes(sig.patterns, 1, text, PatternWeight, "Pattern: ", s0)
      s2 == ScanRegexes(sig.confidence_indicators, 1, text, IndicatorWeight,
                        "Indicator: ", s1)
      s3 == IF s2.raised THEN s2 ELSE CheckJsGlobals(sig.name, js, s2)
      s4 == IF ~s3.raised /\ sig.version_patterns # <<>> /\ Falsy(s3.version)
              THEN VersionDetection(sig.version_patterns, 1,
                                    VersionText(html, h), s3)
              ELSE s3
  IN  s4

\* The evidence kept whole.
TruncateNone(ev) == ev

\* evidence[:3] (line 721).
Truncate(ev) == SubSeq(ev, 1, Min(EvidenceLimit, Len(ev)))

\* The entry of lines 717-722.
Detection(sig, st) ==
  [category |-> sig.category,
   confidence |-> Min(st.confidence, MaxConfidence),
   version |-> st.version,
   evidence |-> Truncate(st.evidence)]

\* Whether line 716 lets the signature into the mapping.
Emits(st) == st.confidence >= Threshold

\* d[name] = entry.
Put(d, name, entry) ==
  [k \in DOMAIN d \cup {name} |-> IF k = name THEN entry ELSE d[k]]

\* No exception.
NoException == [type |-> "None"]

\* No summary was made, no call is on record and no request is served.
Idle ==
  /\ overall_scores = EmptyMap
  /\ log = <<>>
  /\ urls = <<>>
  /\ url_index = 1
  /\ results = <<>>
  /\ batch_response = None
  /\ page = None
  /\ open_pages = 0
  /\ attempts = <<>>
  /\ response = None
  /\ extracted = FALSE
  /\ error = NoException

\* self.tech_signatures as _load_tech_signatures returns it (line 63).
CatalogueOrder == [i \in DOMAIN tech_signatures |-> i]

\* The i-th signature of self.tech_signatures.
Signature(i) == tech_signatures[order[i]]

\* detect is about to run on some input.
DetectStarts ==
  /\ html_content \in HtmlPages
  /\ headers \in HeaderMaps
  /\ js_data \in JsSnapshots
  /\ pc = "loop"
  /\ idx = 1
  /\ detected = EmptyMap
  /\ confidence = 0
  /\ evidence = <<>>
  /\ version = None
  /\ scorer = "none"
  /\ facts = EmptyMap
  /\ raw = 0
  /\ score = 0
  /\ is_ssl = TRUE
  /\ tech_stack = EmptyMap
  /\ key_findings = EmptyMap
  /\ recommendations = <<>>
  /\ Idle

\* The state after __init__ (lines 59-63): the catalogue is loaded as plain
\* strings, no regex is compiled, and detect is about to run on some input.
InitDetect ==
  /\ order = CatalogueOrder
  /\ DetectStarts

\* One iteration of the loop that runs to its end; after the last signature
\* the function returns the mapping (line 724).
EvalSignature ==
  /\ pc = "loop"
  /\ idx <= Len(order)
  /\ LET sig == Signature(idx)
         st == EvaluateSignature(sig, html_content, headers, js_data)
     IN  /\ ~st.raised
         /\ confidence' = st.confidence
         /\ evidence' = st.evidence
         /\ version' = st.version
         /\ detected' = IF Emits(st)
                          THEN Put(detected, sig.name, Detection(sig, st))
                          ELSE detected
  /\ idx' = idx + 1
  /\ pc' = IF idx = Len(order) THEN "returned" ELSE "loop"
  /\ UNCHANGED <<html_content, headers, js_data, order>>
  /\ UNCHANGED scoreVars
  /\ UNCHANGED reportVars

\* An iteration in which re.search raises re.error: nothing in
\* _detect_technologies or _analyze_tech_stack catches it, the call ends
\* with the exception and the mapping built so far is lost to the caller.
RegexError ==
  /\ pc = "loop"
  /\ idx <= Len(order)
  /\ LET sig == Signature(idx)
         st == EvaluateSignature(sig, html_content, headers, js_data)
     IN  /\ st.raised
         /\ confidence' = st.confidence
         /\ evidence' = st.evidence
         /\ version' = st.version
  /\ pc' = "raised"
  /\ UNCHANGED <<html_content, headers, js_data, order, idx, detected>>
  /\ UNCHANGED scoreVars
  /\ UNCHANGED reportVars

Next == EvalSignature \/ RegexError

Spec == InitDetect /\ [][Next]_vars

(***************************************************************************)
(* The six scorers and the analysis records they read.  A record is built  *)
(* from the counts of a page as the extraction builds it.  Ratios are      *)
(* Python floats; int(x) is the floor of x for x >= 0.                     *)
(***************************************************************************)
MaxCount == 2      \* elements of one kind in a page
MaxResources == 1  \* stylesheets, or scripts, of one kind in a page

Counts == 0..MaxCount
\* Pairs total, part with part <= total.
Parts == {p \in Counts \X Counts : p[2] <= p[1]}
\* The same with the pairs whose ratio is no multiple of a half, and ten of
\* ten.
Coverage == Parts \cup {<<3, 1>>, <<3, 2>>, <<10, 10>>}
\* Numbers of h1 elements: none, one, several.
H1Counts == Counts \cup {3}

\* <title>: absent, or [text |-> the stripped text, raw_len |-> len(title.text)].
Titles ==
  {[present |-> FALSE, text |-> "", raw_len |-> 0],
   [present |-> TRUE, text |-> "", raw_len |-> 0],
   [present |-> TRUE, text |-> "Home", raw_len |-> 4],
   [present |-> TRUE, text |-> "A page title that is forty characters ok",
    raw_len |-> 40]}
\* <meta name="description">: absent, or the length of its content.
MetaDescriptions ==
  {[present |-> FALSE, len |-> 0], [present |-> TRUE, len |-> 50],
   [present |-> TRUE, len |-> 140]}

\* The part of _extract_seo_analysis that _calculate_seo_score reads.
extract_seo_analysis(title, meta, h1, imgs, content, ld, micro, og, index, canonical) ==
  [title |-> title.text,
   title_is_optimal_length |->
     IF title.present THEN 30 <= title.raw_len /\ title.raw_len <= 60
     ELSE FALSE,
   meta_is_optimal_length |->
     IF meta.present THEN 120 <= meta.len /\ meta.len <= 160 ELSE FALSE,
   meta_exists |-> meta.present,
   h1_count |-> h1,
   proper_h1_usage |-> (h1 = 1),
   total_images |-> imgs[1],
   images_with_alt |-> imgs[2],
   is_sufficient_content |-> content,
   has_json_ld |-> ld,
   has_microdata |-> micro,
   has_opengraph |-> og,
   is_indexable |-> index,
   canonical_exists |-> canonical]

SeoFacts ==
  {extract_seo_analysis(t, m, h, i, c, l, mi, o, x, ca) :
     t \in Titles, m \in MetaDescriptions, h \in H1Counts, i \in Coverage,
     c \in BOOLEAN, l \in BOOLEAN, mi \in BOOLEAN, o \in BOOLEAN,
     x \in BOOLEAN, ca \in BOOLEAN}

\* The SEO points with the image ratio rounded to the nearest integer.
SeoPointsRounded(d) ==
    (IF d.title_is_optimal_length THEN 20
     ELSE IF d.title # "" THEN 10 ELSE 0)
  + (IF d.meta_is_optimal_length THEN 15
     ELSE IF d.meta_exists THEN 8 ELSE 0)
  + (IF d.proper_h1_usage THEN 15 ELSE IF d.h1_count > 0 THEN 8 ELSE 0)
  + (IF d.total_images > 0
       THEN (2 * d.images_with_alt * 10 + d.total_images)
              \div (2 * d.total_images)
       ELSE 0)
  + (IF d.is_sufficient_content THEN 10 ELSE 0)
  + (IF d.has_json_ld THEN 8 ELSE 0)
  + (IF d.has_microdata THEN 4 ELSE 0)
  + (IF d.has_opengraph THEN 3 ELSE 0)
  + (IF d.is_indexable THEN 5 ELSE 0)
  + (IF d.canonical_exists THEN 10 ELSE 0)

\* The local score of _calculate_seo_score before the final min.
SeoPoints(d) ==
    (IF d.title_is_optimal_length THEN 20
     ELSE IF d.title # "" THEN 10 ELSE 0)
  + (IF d.meta_is_optimal_length THEN 15
     ELSE IF d.meta_exists THEN 8 ELSE 0)
  + (IF d.proper_h1_usage THEN 15 ELSE IF d.h1_count > 0 THEN 8 ELSE 0)
  + (IF d.total_images > 0
       THEN (d.images_with_alt * 10) \div d.total_images ELSE 0)
  + (IF d.is_sufficient_content THEN 10 ELSE 0)
  + (IF d.has_json_ld THEN 8 ELSE 0)
  + (IF d.has_microdata THEN 4 ELSE 0)
  + (IF d.has_opengraph THEN 3 ELSE 0)
  + (IF d.is_indexable THEN 5 ELSE 0)
  + (IF d.canonical_exists THEN 10 ELSE 0)

\* The part of _analyze_accessibility the scorer reads.
analyze_accessibility(imgs, links, h1, lang, aria, role, forms) ==
  [total_images |-> imgs[1],
   images_with_alt |-> imgs[2],
   images_without_alt |-> imgs[1] - imgs[2],
   total_links |-> links[1],
   links_with_text |-> links[2],
   h1_count |-> h1,
   proper_h1_usage |-> (h1 = 1),
   html_has_lang |-> lang,
   elements_with_aria_label |-> aria,
   elements_with_role |-> role,
   total_forms |-> forms[1],
   forms_with_labels |-> forms[2]]

AccessibilityFacts ==
  {analyze_accessibility(i, l, h, g, a, r, f) :
     i \in Coverage, l \in Coverage, h \in H1Counts, g \in BOOLEAN,
     a \in Counts, r \in Counts, f \in Parts}

\* The accessibility points with 20 for a page without links.
AccessibilityPointsNoLinks(d) ==
    (IF d.total_images > 0
       THEN (d.images_with_alt * 25) \div d.total_images ELSE 25)
  + (IF d.total_links > 0
       THEN (d.links_with_text * 20) \div d.total_links ELSE 20)
  + (IF d.proper_h1_usage THEN 20 ELSE IF d.h1_count > 0 THEN 10 ELSE 0)
  + (IF d.html_has_lang THEN 15 ELSE 0)
  + (IF d.elements_with_aria_label > 0 THEN 5 ELSE 0)
  + (IF d.elements_with_role > 0 THEN 5 ELSE 0)
  + (IF d.total_forms > 0
       THEN (IF d.forms_with_labels = d.total_forms THEN 10
             ELSE IF d.forms_with_labels > 0 THEN 5 ELSE 0)
       ELSE 10)

\* The local score of _calculate_accessibility_score before the final min.
AccessibilityPoints(d) ==
    (IF d.total_images > 0
       THEN (d.images_with_alt * 25) \div d.total_images ELSE 25)
  + (IF d.total_links > 0
       THEN (d.links_with_text * 20) \div d.total_links ELSE 0)
  + (IF d.proper_h1_usage THEN 20 ELSE IF d.h1_count > 0 THEN 10 ELSE 0)
  + (IF d.html_has_lang THEN 15 ELSE 0)
  + (IF d.elements_with_aria_label > 0 THEN 5 ELSE 0)
  + (IF d.elements_with_role > 0 THEN 5 ELSE 0)
  + (IF d.total_forms > 0
       THEN (IF d.forms_with_labels = d.total_forms THEN 10
             ELSE IF d.forms_with_labels > 0 THEN 5 ELSE 0)
       ELSE 10)

\* round(html_size / 1024, 2) in hundredths of a KB (round half to even).
HtmlSizeKb(bytes) ==
  LET q == (bytes * 100) \div 1024
      r == (bytes * 100) % 1024
  IN  IF r > 512 \/ (r = 512 /\ q % 2 = 1) THEN q + 1 ELSE q

\* The size of the HTML and the number of img, script, link and iframe
\* elements that are neither images, scripts with src nor stylesheets.
PageWeights ==
  {[html_size |-> 2048, other |-> 0],
   [html_size |-> 204800, other |-> 50],
   [html_size |-> 716800, other |-> 100],
   [html_size |-> 2097152, other |-> 150]}

\* Stylesheet links, or scripts with src, of a page by kind: external and
\* minified, external and not minified, local and minified.
Resources ==
  [ext_min : 0..MaxResources, ext_plain : 0..MaxResources,
   local_min : 0..MaxResources]

\* _analyze_performance: external counts the URLs that start with http or
\* //, minified counts the URLs that hold min.css or min.js, external or not.
analyze_performance(w, imgs, lazy, srcset, css, js) ==
  [html_size_kb |-> HtmlSizeKb(w.html_size),
   total_images |-> imgs,
   external_scripts |-> js.ext_min + js.ext_plain,
   external_stylesheets |-> css.ext_min + css.ext_plain,
   total_requests_estimate |->
       imgs + js.ext_min + js.ext_plain + js.local_min
     + css.ext_min + css.ext_plain + css.local_min + w.other,
   lazy_loaded_images |-> lazy,
   responsive_images |-> srcset,
   minified_css |-> css.ext_min + css.local_min,
   minified_js |-> js.ext_min + js.local_min]

\* Images of a page: total, with loading=lazy, with srcset.
ImageCounts ==
  {p \in Counts \X Counts \X Counts : p[2] <= p[1] /\ p[3] <= p[1]}

PerformanceFacts ==
  {analyze_performance(w, i[1], i[2], i[3], c, j) :
     w \in PageWeights, i \in ImageCounts, c \in Resources,
     j \in Resources}

\* int(css_score + js_score) of line 1551: the floor of the sum of the two
\* ratios times 10, but for the sums that the float addition leaves just
\* under the integer (4/3*10 + 1/6*10 is 14.999999999999998).
MinificationPoints(mc, ec, mj, ej) ==
  LET cn == IF ec > 0 THEN mc * 10 ELSE 10
      cd == IF ec > 0 THEN ec ELSE 1
      jn == IF ej > 0 THEN mj * 10 ELSE 10
      jd == IF ej > 0 THEN ej ELSE 1
      exact == (cn * jd + jn * cd) \div (cd * jd)
  IN  IF <<mc, ec, mj, ej>> \in {<<4, 3, 1, 6>>, <<1, 6, 4, 3>>}
        THEN exact - 1 ELSE exact

\* The local score of _calculate_performance_score before the final min.
PerformancePoints(d) ==
    (IF d.html_size_kb < 10000 THEN 20
     ELSE IF d.html_size_kb < 50000 THEN 15
     ELSE IF d.html_size_kb < 100000 THEN 10 ELSE 5)
  + (IF d.total_images > 0
       THEN ((d.lazy_loaded_images + d.responsive_images) * 25)
              \div (2 * d.total_images)
       ELSE 25)
  + MinificationPoints(d.minified_css, d.external_stylesheets,
                       d.minified_js, d.external_scripts)
  + (IF d.total_requests_estimate < 50 THEN 35
     ELSE IF d.total_requests_estimate < 100 THEN 25
     ELSE IF d.total_requests_estimate < 150 THEN 15 ELSE 5)

\* <meta name="viewport">: absent, or its content.
Viewports == {None, "width=1024", "width=device-width, initial-scale=1"}
\* 'width=device-width' in content.
HasDeviceWidth(content) == content = "width=device-width, initial-scale=1"

\* The part of _analyze_mobile the scorer reads.
analyze_mobile(viewport, icons, srcset, flex) ==
  [viewport_exists |-> viewport # None,
   viewport_is_responsive |->
     IF viewport # None THEN HasDeviceWidth(viewport) ELSE FALSE,
   touch_icons |-> icons,
   responsive_images |-> srcset,
   flexible_layouts |-> flex]

MobileFacts ==
  {analyze_mobile(v, i, s, f) :
     v \in Viewports, i \in Counts, s \in Counts, f \in Counts}

\* The mobile points with the icon, image and layout points given only to
\* a page that has a viewport meta.
MobilePointsBehindViewport(d) ==
    (IF d.viewport_is_responsive THEN 40
     ELSE IF d.viewport_exists THEN 20 ELSE 0)
  + (IF d.viewport_exists /\ d.touch_icons > 0 THEN 20 ELSE 0)
  + (IF d.viewport_exists /\ d.responsive_images > 0 THEN 20 ELSE 0)
  + (IF d.viewport_exists /\ d.flexible_layouts > 0 THEN 20 ELSE 0)

\* The local score of _calculate_mobile_score before the final min.
MobilePoints(d) ==
    (IF d.viewport_is_responsive THEN 40
     ELSE IF d.viewport_exists THEN 20 ELSE 0)
  + (IF d.touch_icons > 0 THEN 20 ELSE 0)
  + (IF d.responsive_images > 0 THEN 20 ELSE 0)
  + (IF d.flexible_layouts > 0 THEN 20 ELSE 0)

\* The security headers _analyze_security looks for.
TrackedHeaders ==
  {"strict-transport-security", "content-security-policy",
   "x-frame-options", "x-content-type-options"}

\* The keys of security_headers in the order of the dict literal, and the
\* header each of them stands for.
SecurityHeaderKeys ==
  <<"strict_transport_security", "content_security_policy",
    "x_frame_options", "x_content_type_options">>
HeaderOf(key) ==
  CASE key = "strict_transport_security" -> "strict-transport-security"
    [] key = "content_security_policy" -> "content-security-policy"
    [] key = "x_frame_options" -> "x-frame-options"
    [] key = "x_content_type_options" -> "x-content-type-options"

\* A response header mapping that holds the tracked headers of a set.
ReceivedHeaders(names) == [h \in names |-> "1"]

\* _analyze_security: https_usage is the constant True of line 1319, whatever
\* the scheme of the page; present is the set of the header names received.
analyze_security(https, present, http_resources, forms) ==
  [https_usage |-> TRUE,
   security_headers |->
     [k \in {SecurityHeaderKeys[i] : i \in DOMAIN SecurityHeaderKeys} |->
        HeaderOf(k) \in present],
   http_resources |-> http_resources,
   total_forms |-> forms[1],
   forms_with_https_action |-> forms[2]]

\* The local score of _calculate_security_score before the final min.
SecurityPoints(d) ==
  LET header_count ==
        Cardinality({h \in DOMAIN d.security_headers : d.security_headers[h]})
  IN    (IF d.https_usage THEN 30 ELSE 0)
      + (header_count * 40) \div Cardinality(DOMAIN d.security_headers)
      + (IF d.http_resources = 0 THEN 20 ELSE 0)
      + (IF d.total_forms = 0 THEN 10
         ELSE (d.forms_with_https_action * 10) \div d.total_forms)

\* Word counts and text densities (round(text_size / html_size, 3), in
\* thousandths) around the limits of the tiers.
WordCounts ==
  {0, 99, 100, 299, 300, 399, 400, 499, 500, 999, 1000, 2199, 2200, 3199,
   3200}
TextDensities == {50, 51, 100, 101}
\* Headings of the levels 2 to 6.
OtherHeadings == {0, 3}

\* The part of _extract_content_analysis the scorer reads.
extract_content_analysis(words, h1, others, images, videos, lists, tables, density) ==
  [word_count |-> words,
   reading_time |-> IF words \div 200 > 1 THEN words \div 200 ELSE 1,
   h1_count |-> h1,
   proper_h1_usage |-> (h1 = 1),
   total_headings |-> h1 + others,
   images |-> images,
   videos |-> videos,
   total_lists |-> lists,
   total_tables |-> tables,
   text_density |-> density]

ContentFacts ==
  {extract_content_analysis(w, h, o, i, v, l, tb, d) :
     w \in WordCounts, h \in H1Counts, o \in OtherHeadings, i \in Counts,
     v \in Counts, l \in Counts, tb \in Counts, d \in TextDensities}

\* The content points with the word-count tiers open at their lower ends.
ContentPointsOpenTiers(d) ==
  LET diversity_score ==
          (IF d.images > 0 THEN 8 ELSE 0)
        + (IF d.videos > 0 THEN 8 ELSE 0)
        + (IF d.total_lists > 0 THEN 5 ELSE 0)
        + (IF d.total_tables > 0 THEN 4 ELSE 0)
  IN    (IF d.word_count > 1000 THEN 25
         ELSE IF d.word_count > 500 THEN 20
         ELSE IF d.word_count > 300 THEN 15
         ELSE IF d.word_count > 100 THEN 10 ELSE 5)
      + (IF d.proper_h1_usage THEN 10 ELSE 0)
      + (IF d.total_headings > 3 THEN 10 ELSE 0)
      + Min(diversity_score, 25)
      + (IF d.text_density > 100 THEN 15
         ELSE IF d.text_density > 50 THEN 10 ELSE 5)
      + (IF 2 <= d.reading_time /\ d.reading_time <= 10 THEN 15
         ELSE IF 1 <= d.reading_time /\ d.reading_time <= 15 THEN 10
         ELSE 5)

\* The local score of _calculate_content_score before the final min.
ContentPoints(d) ==
  LET diversity_score ==
          (IF d.images > 0 THEN 8 ELSE 0)
        + (IF d.videos > 0 THEN 8 ELSE 0)
        + (IF d.total_lists > 0 THEN 5 ELSE 0)
        + (IF d.total_tables > 0 THEN 4 ELSE 0)
  IN    (IF d.word_count >= 1000 THEN 25
         ELSE IF d.word_count >= 500 THEN 20
         ELSE IF d.word_count >= 300 THEN 15
         ELSE IF d.word_count >= 100 THEN 10 ELSE 5)
      + (IF d.proper_h1_usage THEN 10 ELSE 0)
      + (IF d.total_headings > 3 THEN 10 ELSE 0)
      + Min(diversity_score, 25)
      + (IF d.text_density > 100 THEN 15
         ELSE IF d.text_density > 50 THEN 10 ELSE 5)
      + (IF 2 <= d.reading_time /\ d.reading_time <= 10 THEN 15
         ELSE IF 1 <= d.reading_time /\ d.reading_time <= 15 THEN 10
         ELSE 5)

\* The score returned without the final min.
FinalScoreNoClamp(points) == points

\* return min(score, 100), the last line of each scorer.
FinalScore(points) == Min(points, 100)

\* The start of the security scorer: the page comes over http or https with
\* some of the tracked headers.
InitSecurity ==
  /\ scorer = "security"
  /\ is_ssl \in BOOLEAN
  /\ headers \in {ReceivedHeaders(p) : p \in SUBSET TrackedHeaders}
  /\ \E r \in Counts, f \in Parts :
       facts = analyze_security(is_ssl, DOMAIN headers, r, f)

\* The start of one of the other scorers: they read neither the scheme nor
\* the headers of the page.
InitOther ==
  /\ \/ scorer = "seo" /\ facts \in SeoFacts
     \/ scorer = "accessibility" /\ facts \in AccessibilityFacts
     \/ scorer = "performance" /\ facts \in PerformanceFacts
     \/ scorer = "mobile" /\ facts \in MobileFacts
     \/ scorer = "content" /\ facts \in ContentFacts
  /\ is_ssl = TRUE
  /\ headers = EmptyMap

\* A scorer is about to run on the record of some page.
InitScore ==
  /\ \/ InitSecurity
     \/ InitOther
  /\ pc = "facts"
  /\ raw = 0
  /\ score = 0
  /\ html_content = <<>>
  /\ js_data = [frameworks |-> EmptyMap, libraries |-> EmptyMap]
  /\ order = CatalogueOrder
  /\ idx = 1
  /\ detected = EmptyMap
  /\ confidence = 0
  /\ evidence = <<>>
  /\ version = None
  /\ tech_stack = EmptyMap
  /\ key_findings = EmptyMap
  /\ recommendations = <<>>
  /\ Idle

\* A scorer runs: the record is read, not written.
Scored(name, points) ==
  /\ pc = "facts"
  /\ scorer = name
  /\ raw' = points
  /\ score' = FinalScore(points)
  /\ pc' = "scored"
  /\ UNCHANGED <<scorer, facts>>
  /\ UNCHANGED detectVars
  /\ UNCHANGED reportVars

calculate_seo_score == Scored("seo", SeoPoints(facts))
calculate_accessibility_score ==
  Scored("accessibility", AccessibilityPoints(facts))
calculate_performance_score == Scored("performance", PerformancePoints(facts))
calculate_mobile_score == Scored("mobile", MobilePoints(facts))
calculate_security_score == Scored("security", SecurityPoints(facts))
calculate_content_score == Scored("content", ContentPoints(facts))

NextScore ==
  \/ calculate_seo_score
  \/ calculate_accessibility_score
  \/ calculate_performance_score
  \/ calculate_mobile_score
  \/ calculate_security_score
  \/ calculate_content_score

SpecScore == InitScore /\ [][NextScore]_vars

(***************************************************************************)
(* Properties of _detect_technologies.                                     *)
(***************************************************************************)
\* The call has ended, by return or by exception.
RunEnded == pc \in {"returned", "raised"}

\* The iteration that ran last ran to its end; LastSig is its signature.
Evaluated == pc \in {"loop", "returned"} /\ idx > 1
LastSig == Signature(idx - 1)

\* The mapping the caller receives: there is one only after a return.
InOutput(name) == pc = "returned" /\ name \in DOMAIN detected

\* What signature i accumulates on the input of this run, taken alone.
Alone(i) ==
  EvaluateSignature(tech_signatures[i], html_content, headers, js_data)

\* The positions of the regexes of a list that match the text.
Matching(regexes, text) ==
  {i \in DOMAIN regexes : re_search(regexes[i], text) = "match"}

PageText == combined_text(html_content, headers)
HasGlobal(name) ==
  name \in DOMAIN js_data.frameworks \cup DOMAIN js_data.libraries

\* The weighted sum of the matches of a signature, w for each pattern.
WeightedSum(sig, w) ==
    w * Cardinality(Matching(sig.patterns, PageText))
  + 30 * Cardinality(Matching(sig.confidence_indicators, PageText))
  + (IF HasGlobal(sig.name) THEN 40 ELSE 0)

\* The number of pattern and indicator notes of a signature.
MatchNotes(sig) ==
    Cardinality(Matching(sig.patterns, PageText))
  + Cardinality(Matching(sig.confidence_indicators, PageText))

FirstN(s, n) == [i \in 1..(IF Len(s) < n THEN Len(s) ELSE n) |-> s[i]]

\* C1: a failure while one signature is evaluated never aborts the run: when
\* the call has ended it has returned, every signature whose own evaluation
\* does not fail has been evaluated, and each of them that accumulates at
\* least 40 is in the mapping returned.
C1_FailureNeverAborts ==
  RunEnded =>
    /\ pc = "returned"
    /\ \A i \in DOMAIN tech_signatures :
         ~Alone(i).raised =>
           /\ i < idx
           /\ (Alone(i).confidence >= 40 =>
                 InOutput(tech_signatures[i].name))

\* C2: detect with the shipped catalogue never fails with a regex error (a
\* regex that does not compile is reported when the catalogue is loaded).
C2_NoRegexErrorInDetect == pc # "raised"

\* C3: when the call has ended, a signature is in its output if and only if
\* its accumulated confidence is at least 40, with min(accumulated, 100) as
\* confidence, so that every confidence of the output lies in 40..100.
C3_EmittedIffThreshold ==
  RunEnded =>
    \A i \in DOMAIN tech_signatures :
      ~Alone(i).raised =>
        LET name == tech_signatures[i].name
        IN  /\ InOutput(name) <=> Alone(i).confidence >= 40
            /\ InOutput(name) =>
                 /\ detected[name].confidence =
                      (IF Alone(i).confidence < 100
                         THEN Alone(i).confidence ELSE 100)
                 /\ detected[name].confidence \in 40..100

NoteRank(sig, note) ==
  IF \E i \in DOMAIN sig.patterns : note = "Pattern: " \o sig.patterns[i]
    THEN 1
  ELSE IF \E i \in DOMAIN sig.confidence_indicators :
            note = "Indicator: " \o sig.confidence_indicators[i]
    THEN 2
  ELSE IF note = "JavaScript global detected" THEN 3
  ELSE 4
NotePlace(sig, note) ==
  IF NoteRank(sig, note) = 1
    THEN CHOOSE i \in DOMAIN sig.patterns :
           note = "Pattern: " \o sig.patterns[i]
  ELSE IF NoteRank(sig, note) = 2
    THEN CHOOSE i \in DOMAIN sig.confidence_indicators :
           note = "Indicator: " \o sig.confidence_indicators[i]
  ELSE 0
InAccumulationOrder(sig, ev) ==
  \A i, j \in DOMAIN ev :
    i < j =>
      \/ NoteRank(sig, ev[i]) < NoteRank(sig, ev[j])
      \/ /\ NoteRank(sig, ev[i]) = NoteRank(sig, ev[j])
         /\ NoteRank(sig, ev[i]) \in {1, 2}
         /\ NotePlace(sig, ev[i]) < NotePlace(sig, ev[j])

\* C7 as stated: the evidence of an emitted Detection is the first 5 entries
\* of the accumulated notes, in accumulation order.
C7_FirstFive ==
  (Evaluated /\ LastSig.name \in DOMAIN detected) =>
    /\ detected[LastSig.name].evidence = FirstN(evidence, 5)
    /\ InAccumulationOrder(LastSig, evidence)

\* C7 amended: the evidence of a recorded Detection is the first 3 entries
\* (all when fewer than 3) of the accumulated notes, in accumulation order:
\* pattern notes, indicator notes, the JavaScript-global note, the version
\* note.
C7_FirstThree ==
  (Evaluated /\ LastSig.name \in DOMAIN detected) =>
    /\ detected[LastSig.name].evidence = FirstN(evidence, 3)
    /\ InAccumulationOrder(LastSig, evidence)

\* Four notes were accumulated (two patterns, an indicator, the version) and
\* the Detection keeps three of them.
C7_Witness ==
  /\ Evaluated
  /\ LastSig.name = "WordPress"
  /\ "WordPress" \in DOMAIN detected
  /\ Len(evidence) = 4
  /\ evidence[4] = "Version found: 5.9"
  /\ Len(detected["WordPress"].evidence) = 3

\* The number of JavaScript-global notes in the evidence.
GlobalNotes(ev) ==
  Cardinality({i \in DOMAIN ev : ev[i] = "JavaScript global detected"})

\* C8: JavaScript-global evidence counts once per signature: a name that is
\* a key of frameworks and/or libraries adds exactly 40 and exactly one
\* note, also when it is a key of both; the version is the value of that key
\* (that of frameworks when both hold it) and no version pattern replaces
\* it; a name that is no key adds nothing.
C8_GlobalCountedOnce ==
  Evaluated =>
    LET name == LastSig.name
        base == 25 * Cardinality(Matching(LastSig.patterns, PageText))
              + 30 * Cardinality(Matching(LastSig.confidence_indicators,
                                          PageText))
    IN  /\ HasGlobal(name) =>
             /\ confidence = base + 40
             /\ GlobalNotes(evidence) = 1
             /\ Len(evidence) = MatchNotes(LastSig) + 1
             /\ version = (IF name \in DOMAIN js_data.frameworks
                             THEN js_data.frameworks[name]
                             ELSE js_data.libraries[name])
             /\ name \in DOMAIN detected
             /\ detected[name].version = version
        /\ ~HasGlobal(name) =>
             /\ confidence = base
             /\ GlobalNotes(evidence) = 0

\* The name is a key of both maps, with two values, and the page holds a
\* version the pattern of the signature matches.
C8_Witness ==
  /\ Evaluated
  /\ LastSig.name = "Bootstrap"
  /\ "Bootstrap" \in DOMAIN js_data.frameworks
  /\ "Bootstrap" \in DOMAIN js_data.libraries
  /\ js_data.frameworks["Bootstrap"] # js_data.libraries["Bootstrap"]
  /\ re_search(LastSig.version_patterns[1], html_content) = "match"
  /\ "Bootstrap" \in DOMAIN detected
  /\ detected["Bootstrap"].version = js_data.frameworks["Bootstrap"]

\* The version patterns of a signature that match the original-case HTML.
VersionHits(sig) == Matching(sig.version_patterns, html_content)
FirstHit(sig) ==
  CHOOSE k \in VersionHits(sig) : \A m \in VersionHits(sig) : k <= m

Example1Input ==
  /\ html_content = <<"/wp-content/themes/x.css", "wp-includes">>
  /\ headers = [k \in {"server"} |-> "nginx"]
  /\ js_data = [frameworks |-> EmptyMap, libraries |-> EmptyMap]
OnePatternInput ==
  /\ html_content = <<"WordPress 5.9">>
  /\ js_data = [frameworks |-> EmptyMap, libraries |-> EmptyMap]

\* C10: on the input of Example 1 detect emits "WordPress" with category
\* "cms" and confidence exactly 40; on a page with a single pattern match
\* it emits no "WordPress".
C10_Example1 ==
  RunEnded =>
    /\ Example1Input =>
         /\ InOutput("WordPress")
         /\ detected["WordPress"].category = "cms"
         /\ detected["WordPress"].confidence = 40
    /\ OnePatternInput => (pc = "returned" /\ ~InOutput("WordPress"))

(***************************************************************************)
(* Properties of the scorers.                                              *)
(***************************************************************************)
\* C4: each of the six scorers returns an integer in 0..100, also for a
\* page without images, links or forms.
C4_ScoreInRange == pc = "scored" => score \in 0..100

\* The performance scorer has run on a page without images whose points
\* exceed 100, and the final min has cut them.
C4_Witness ==
  /\ pc = "scored"
  /\ scorer = "performance"
  /\ facts.total_images = 0
  /\ raw > 100
  /\ score = 100

\* C5: in every scorer the partial contributions sum to at most 100 before
\* the final min.
C5_PointsAtMost100 == pc = "scored" => raw <= 100

(***************************************************************************)
(* _analyze_tech_stack and the key findings of _create_summary.  A dict is *)
(* modelled by the sequence of its keys in insertion order; the value of a *)
(* name in a bucket is its entry of detected.                              *)
(***************************************************************************)
MaxTechs == 2      \* technologies in the mapping handed over by detect

\* The names of the catalogue in its order.
CatalogueNames == [i \in DOMAIN tech_signatures |-> tech_signatures[i].name]

\* What detect records for a signature whose first pattern and first
\* indicator match.
SampleDetection(sig) ==
  Detection(sig, [raised |-> FALSE,
                  confidence |-> PatternWeight + IndicatorWeight,
                  evidence |-> <<"Pattern: " \o sig.patterns[1],
                                 "Indicator: " \o sig.confidence_indicators[1]>>,
                  version |-> None])

\* The sets of at most k signatures of the catalogue.
RECURSIVE SignatureSets(_)
SignatureSets(k) ==
  IF k = 0 THEN {{}}
  ELSE LET smaller == SignatureSets(k - 1)
       IN  smaller \cup {S \cup {i} : S \in smaller, i \in DOMAIN tech_signatures}

\* The mappings _detect_technologies hands over when it returns: some
\* signatures of the catalogue, each with the category of its signature.
DetectedMappings ==
  {[n \in {tech_signatures[i].name : i \in S} |->
      SampleDetection(
        tech_signatures[CHOOSE i \in S : tech_signatures[i].name = n])] :
     S \in SignatureSets(MaxTechs)}

\* detected_techs.items(): detect inserts in the order of the catalogue.
Items(d) == SelectSeq(CatalogueNames, LAMBDA n : n \in DOMAIN d)

\* The keys of tech_stack that hold a bucket (lines 644-651), and all keys.
BucketKeys ==
  <<"cms", "frameworks", "css_frameworks", "analytics", "seo_tools",
    "libraries", "cdn", "performance">>
BucketKeySet == {BucketKeys[i] : i \in DOMAIN BucketKeys}
StackKeys ==
  BucketKeySet \cup {"server_info", "detected_technologies", "summary"}

\* Lines 660-661: the key a category is filed under, None when
\* 'category in tech_stack' is false.  No category of the catalogue is one
\* of the three keys that hold no bucket.
BucketOf(category) ==
  IF category \in StackKeys \cap BucketKeySet THEN category ELSE None

\* The loop of lines 658-661 from item i on.
RECURSIVE Categorize(_, _, _, _)
Categorize(items, i, d, buckets) ==
  IF i > Len(items) THEN buckets
  ELSE LET key == BucketOf(d[items[i]].category)
       IN  Categorize(items, i + 1, d,
             IF key = None THEN buckets
             ELSE [buckets EXCEPT ![key] = Append(@, items[i])])

\* _extract_server_info: the server entry.
ServerOf(h) == IF "server" \in DOMAIN h THEN h["server"] ELSE "Unknown"

\* The report of _analyze_tech_stack for the mapping d of detect.
analyze_tech_stack(d, h) ==
  LET buckets == Categorize(Items(d), 1, d, [k \in BucketKeySet |-> <<>>])
  IN  [buckets |-> buckets,
       detected_technologies |-> d,
       summary |->
         [total_technologies |-> Cardinality(DOMAIN d),
          cms_detected |-> buckets["cms"],
          frameworks_detected |-> buckets["frameworks"],
          analytics_tools |-> buckets["analytics"],
          main_server |-> ServerOf(h),
          has_cms |-> buckets["cms"] # <<>>,
          has_analytics |-> buckets["analytics"] # <<>>]]

\* list(analysis['tech_stack']['cms'].keys())[-1], the last key.
MainCmsLast(ts) ==
  IF ts.buckets["cms"] # <<>>
    THEN ts.buckets["cms"][Len(ts.buckets["cms"])] ELSE "None"

\* Line 1439: the first key of the cms bucket, or 'None'.
MainCms(ts) ==
  IF ts.buckets["cms"] # <<>> THEN ts.buckets["cms"][1] ELSE "None"

\* The entries of key_findings that come from the tech stack (1438-1440).
KeyFindings(ts) ==
  [has_cms |-> ts.buckets["cms"] # <<>>,
   main_cms |-> MainCms(ts),
   has_analytics |-> ts.buckets["analytics"] # <<>>]

\* _detect_technologies has handed over a mapping.
InitStack ==
  /\ detected \in DetectedMappings
  /\ headers \in HeaderMaps
  /\ pc = "detected"
  /\ html_content = <<>>
  /\ js_data = [frameworks |-> EmptyMap, libraries |-> EmptyMap]
  /\ order = CatalogueOrder
  /\ idx = 1
  /\ confidence = 0
  /\ evidence = <<>>
  /\ version = None
  /\ scorer = "none"
  /\ facts = EmptyMap
  /\ raw = 0
  /\ score = 0
  /\ is_ssl = TRUE
  /\ tech_stack = EmptyMap
  /\ key_findings = EmptyMap
  /\ recommendations = <<>>
  /\ Idle

\* The rest of _analyze_tech_stack after line 641.
AnalyzeTechStack ==
  /\ pc = "detected"
  /\ tech_stack' = analyze_tech_stack(detected, headers)
  /\ pc' = "bucketed"
  /\ UNCHANGED <<is_ssl, key_findings, recommendations, serverVars>>
  /\ UNCHANGED detectVars
  /\ UNCHANGED scoreVars

\* _create_summary reads the tech stack into the key findings.
CreateKeyFindings ==
  /\ pc = "bucketed"
  /\ key_findings' = KeyFindings(tech_stack)
  /\ pc' = "summarised"
  /\ UNCHANGED <<is_ssl, tech_stack, recommendations, serverVars>>
  /\ UNCHANGED detectVars
  /\ UNCHANGED scoreVars

NextStack == AnalyzeTechStack \/ CreateKeyFindings

SpecStack == InitStack /\ [][NextStack]_vars

\* The category of a name of the catalogue.
CategoryOf(name) ==
  tech_signatures[CHOOSE i \in DOMAIN tech_signatures :
                    tech_signatures[i].name = name].category

\* The bucket of the report that is kept for a category of the catalogue.
CategoryBucket(category) ==
  CASE category = "framework" -> "frameworks"
    [] category = "css_framework" -> "css_frameworks"
    [] category = "seo" -> "seo_tools"
    [] category = "library" -> "libraries"
    [] OTHER -> category

\* The number of buckets of the report that hold a name.
BucketsHolding(name) ==
  Cardinality({k \in BucketKeySet :
                 \E j \in DOMAIN tech_stack.buckets[k] :
                   tech_stack.buckets[k][j] = name})

\* The sum of the sizes of the buckets from key i on.
RECURSIVE BucketSizes(_)
BucketSizes(i) ==
  IF i > Len(BucketKeys) THEN 0
  ELSE Len(tech_stack.buckets[BucketKeys[i]]) + BucketSizes(i + 1)

\* C11: every Detection of detect is in exactly one bucket of the report,
\* the one of the category of its signature, so that the sizes of the
\* buckets sum to the number of technologies detected.
C11_EveryDetectionBucketed ==
  pc \in {"bucketed", "summarised"} =>
    /\ \A n \in DOMAIN detected :
         /\ BucketsHolding(n) = 1
         /\ \E j \in DOMAIN tech_stack.buckets[CategoryBucket(CategoryOf(n))] :
              tech_stack.buckets[CategoryBucket(CategoryOf(n))][j] = n
    /\ BucketSizes(1) = tech_stack.summary.total_technologies

\* The cms signatures among the detected, as positions of the catalogue.
DetectedCms ==
  {i \in DOMAIN tech_signatures :
     /\ tech_signatures[i].category = "cms"
     /\ tech_signatures[i].name \in DOMAIN detected}

\* C12: main_cms is the name of the first detected signature of category
\* cms in the order of the catalogue, 'None' without one; has_cms is true
\* exactly when main_cms is not 'None'.
C12_MainCmsIsFirst ==
  pc = "summarised" =>
    /\ IF DetectedCms = {}
         THEN key_findings.main_cms = "None"
         ELSE key_findings.main_cms =
                tech_signatures[CHOOSE i \in DetectedCms :
                                  \A j \in DetectedCms : i <= j].name
    /\ key_findings.has_cms <=> key_findings.main_cms # "None"

\* Two content management systems are detected; the first of the catalogue
\* is the main one.
C12_Witness ==
  /\ pc = "summarised"
  /\ Cardinality(DetectedCms) = 2
  /\ key_findings.has_cms
  /\ key_findings.main_cms \in DOMAIN detected

(***************************************************************************)
(* _generate_recommendations and the analyses it reads.                    *)
(***************************************************************************)
\* structured_data['summary'] (line 630) for a page with so many JSON-LD
\* blocks and microdata items.
extract_structured_data(json_ld, microdata) ==
  [has_structured_data |-> json_ld > 0 \/ microdata > 0]

\* Pages for the recommendations.  images: all img, those with
\* loading=lazy, those with a non-empty alt.
RecTitles ==
  {tl \in Titles : (~tl.present) \/ tl.raw_len >= 30}
RecMetas ==
  {m \in MetaDescriptions : (~m.present) \/ m.len >= 120}
RecImages ==
  {[total |-> 0, lazy |-> 0, alt |-> 0], [total |-> 6, lazy |-> 0, alt |-> 6],
   [total |-> 6, lazy |-> 0, alt |-> 4], [total |-> 6, lazy |-> 1, alt |-> 6]}
RecWeights == {w \in PageWeights : w.html_size \in {2048, 716800}}
RecStructured == {<<0, 0>>, <<1, 0>>, <<0, 1>>}

\* The analyses of lines 369-430 that _generate_recommendations reads, for
\* one page.
Analysis(title, meta, h1, w, img, lang, viewport, https, hdrs, sd) ==
  [seo_analysis |->
     extract_seo_analysis(title, meta, h1, <<img.total, img.alt>>, FALSE,
                          sd[1] > 0, sd[2] > 0, FALSE, TRUE, FALSE),
   performance_analysis |->
     analyze_performance(w, img.total, img.lazy, 0,
                         [ext_min |-> 0, ext_plain |-> 0, local_min |-> 0],
                         [ext_min |-> 0, ext_plain |-> 0, local_min |-> 0]),
   accessibility_analysis |->
     analyze_accessibility(<<img.total, img.alt>>, <<0, 0>>, h1, lang, 0, 0,
                           <<0, 0>>),
   mobile_analysis |-> analyze_mobile(viewport, 0, 0, 0),
   security_analysis |-> analyze_security(https, DOMAIN hdrs, 0, <<0, 0>>),
   structured_data |-> extract_structured_data(sd[1], sd[2])]

\* ', '.join(names) from position i on.
RECURSIVE Join(_, _)
Join(names, i) ==
  IF i > Len(names) THEN ""
  ELSE IF i = Len(names) THEN names[i]
  ELSE names[i] \o ", " \o Join(names, i + 1)

\* [k for k, v in security['security_headers'].items() if v], the headers
\* that are present.
PresentHeaderKeys(security) ==
  SelectSeq(SecurityHeaderKeys, LAMBDA k : security.security_headers[k])

\* Line 1713: [k for k, v in security['security_headers'].items() if not v].
MissingHeaderKeys(security) ==
  SelectSeq(SecurityHeaderKeys, LAMBDA k : ~security.security_headers[k])

\* recommendations[:9].
LimitNine(recs) == SubSeq(recs, 1, Min(9, Len(recs)))

\* Line 1722: recommendations[:10].
Limit(recs) == SubSeq(recs, 1, Min(10, Len(recs)))

\* One message when the condition holds.
When(cond, message) == IF cond THEN <<message>> ELSE <<>>

\* _generate_recommendations.
generate_recommendations(analysis) ==
  LET seo == analysis.seo_analysis
      perf == analysis.performance_analysis
      acc == analysis.accessibility_analysis
      mobile == analysis.mobile_analysis
      security == analysis.security_analysis
      missing_headers == MissingHeaderKeys(security)
  IN  Limit(
           When(~seo.title_is_optimal_length,
                "Optimize title length to 30-60 characters for better SEO")
        \o When(~seo.meta_is_optimal_length,
                "Add or optimize meta description (120-160 characters)")
        \o When(~seo.proper_h1_usage,
                "Use exactly one H1 tag per page for better SEO structure")
        \o When(perf.html_size_kb > 50000,
                "Consider reducing HTML size for better loading performance")
        \o When(perf.lazy_loaded_images = 0 /\ perf.total_images > 5,
                "Implement lazy loading for images to improve page speed")
        \o When(acc.images_without_alt > 0,
                "Add alt text to " \o ToString(acc.images_without_alt)
                  \o " images for accessibility")
        \o When(~acc.html_has_lang,
                "Add lang attribute to HTML element for accessibility")
        \o When(~mobile.viewport_is_responsive,
                "Add responsive viewport meta tag for mobile optimization")
        \o When(~security.https_usage,
                "Implement HTTPS for security and SEO benefits")
        \o When(missing_headers # <<>>,
                "Add security headers: " \o Join(missing_headers, 1))
        \o When(~analysis.structured_data.has_structured_data,
                "Add structured data (JSON-LD) to improve search engine understanding"))

\* The analyses of some page are at hand.
InitRecommend ==
  /\ is_ssl \in BOOLEAN
  /\ headers \in {ReceivedHeaders(p) : p \in SUBSET TrackedHeaders}
  /\ \E title \in RecTitles, meta \in RecMetas, h1 \in {0, 1},
        w \in RecWeights, img \in RecImages, lang \in BOOLEAN,
        viewport \in Viewports, sd \in RecStructured :
       facts = Analysis(title, meta, h1, w, img, lang, viewport, is_ssl,
                        headers, sd)
  /\ pc = "analysed"
  /\ html_content = <<>>
  /\ js_data = [frameworks |-> EmptyMap, libraries |-> EmptyMap]
  /\ order = CatalogueOrder
  /\ idx = 1
  /\ detected = EmptyMap
  /\ confidence = 0
  /\ evidence = <<>>
  /\ version = None
  /\ scorer = "none"
  /\ raw = 0
  /\ score = 0
  /\ tech_stack = EmptyMap
  /\ key_findings = EmptyMap
  /\ recommendations = <<>>
  /\ Idle

GenerateRecommendations ==
  /\ pc = "analysed"
  /\ recommendations' = generate_recommendations(facts)
  /\ pc' = "recommended"
  /\ UNCHANGED <<is_ssl, tech_stack, key_findings, serverVars>>
  /\ UNCHANGED detectVars
  /\ UNCHANGED scoreVars

NextRecommend == GenerateRecommendations

SpecRecommend == InitRecommend /\ [][NextRecommend]_vars

(***************************************************************************)
(* Properties of _generate_recommendations.                                *)
(***************************************************************************)
SecurityHeaderKeySet == {SecurityHeaderKeys[i] : i \in DOMAIN SecurityHeaderKeys}

\* The security-header message that lists the keys of a set.
HeaderMessage(S) ==
  "Add security headers: "
    \o Join(SelectSeq(SecurityHeaderKeys, LAMBDA k : k \in S), 1)

\* The messages of each of the eleven rules, in the fixed rule order.
RuleMessages(r) ==
  CASE r = 1 -> {"Optimize title length to 30-60 characters for better SEO"}
    [] r = 2 -> {"Add or optimize meta description (120-160 characters)"}
    [] r = 3 -> {"Use exactly one H1 tag per page for better SEO structure"}
    [] r = 4 -> {"Consider reducing HTML size for better loading performance"}
    [] r = 5 -> {"Implement lazy loading for images to improve page speed"}
    [] r = 6 -> {"Add alt text to " \o ToString(n) \o " images for accessibility" :
                   n \in 1..10}
    [] r = 7 -> {"Add lang attribute to HTML element for accessibility"}
    [] r = 8 -> {"Add responsive viewport meta tag for mobile optimization"}
    [] r = 9 -> {"Implement HTTPS for security and SEO benefits"}
    [] r = 10 -> {HeaderMessage(S) : S \in (SUBSET SecurityHeaderKeySet) \ {{}}}
    [] r = 11 -> {"Add structured data (JSON-LD) to improve search engine understanding"}

Rules == 1..11
RuleOf(message) == CHOOSE r \in Rules : message \in RuleMessages(r)

\* The rules the facts of the page trigger.
Triggered(r) ==
  CASE r = 1 -> ~facts.seo_analysis.title_is_optimal_length
    [] r = 2 -> ~facts.seo_analysis.meta_is_optimal_length
    [] r = 3 -> facts.seo_analysis.h1_count # 1
    [] r = 4 -> facts.performance_analysis.html_size_kb > 50000
    [] r = 5 -> /\ facts.performance_analysis.lazy_loaded_images = 0
                /\ facts.performance_analysis.total_images > 5
    [] r = 6 -> facts.accessibility_analysis.images_without_alt > 0
    [] r = 7 -> ~facts.accessibility_analysis.html_has_lang
    [] r = 8 -> ~facts.mobile_analysis.viewport_is_responsive
    [] r = 9 -> ~facts.security_analysis.https_usage
    [] r = 10 -> \E k \in SecurityHeaderKeySet :
                   ~facts.security_analysis.security_headers[k]
    [] r = 11 -> ~facts.structured_data.has_structured_data
TriggeredRules == {r \in Rules : Triggered(r)}

\* The first ten rules of a set.
FirstTen(S) == {r \in S : Cardinality({q \in S : q < r}) < 10}

C14_HttpsRule ==
  pc = "recommended" =>
    ((\E i \in DOMAIN recommendations :
        recommendations[i] = "Implement HTTPS for security and SEO benefits")
       <=> ~is_ssl)

\* The keys of the tracked headers the response does not hold.
MissingOfPage ==
  {k \in SecurityHeaderKeySet : HeaderOf(k) \notin DOMAIN headers}
HeaderMessagesAt ==
  {i \in DOMAIN recommendations : recommendations[i] \in RuleMessages(10)}
\* The keys a security-header message lists.
Listed(message) ==
  CHOOSE S \in SUBSET SecurityHeaderKeySet : message = HeaderMessage(S)

\* C15: when a tracked security header is missing the output holds exactly
\* one security-header message, which lists all missing headers and no
\* present one; when none is missing there is no such message.
C15_OneHeaderMessage ==
  pc = "recommended" =>
    IF MissingOfPage = {}
      THEN HeaderMessagesAt = {}
      ELSE /\ Cardinality(HeaderMessagesAt) = 1
           /\ \A i \in HeaderMessagesAt :
                Listed(recommendations[i]) = MissingOfPage

\* Two tracked headers are present, two are missing and listed.
C15_Witness ==
  /\ pc = "recommended"
  /\ DOMAIN headers = {"strict-transport-security", "x-frame-options"}
  /\ \E i \in DOMAIN recommendations :
       recommendations[i] =
         "Add security headers: content_security_policy, x_content_type_options"

(***************************************************************************)
(* The point tables of the scorers.  A ratio num/den times a weight is     *)
(* stated in integers.                                                     *)
(***************************************************************************)
\* round(num / den): the nearest integer, a tie going to the even one.
RoundHalfEven(num, den) ==
  LET q == num \div den
      r == num % den
  IN  IF 2 * r > den \/ (2 * r = den /\ q % 2 = 1) THEN q + 1 ELSE q

\* c is num / den made an integer, whatever the rounding.
Within(c, num, den) == c * den > num - den /\ c * den < num + den

\* The tracked headers the response holds.
PresentTracked == TrackedHeaders \cap DOMAIN headers

\* C16: the security score is 30 for a page served over HTTPS, plus
\* round(present / tracked * 40), plus 20 without mixed content, plus 10
\* without forms or else the ratio of the forms with an https action times
\* 10.
C16_SecurityTable ==
  (pc = "scored" /\ scorer = "security") =>
    \E f \in 0..10 :
      /\ IF facts.total_forms = 0 THEN f = 10
         ELSE Within(f, facts.forms_with_https_action * 10, facts.total_forms)
      /\ score = (IF is_ssl THEN 30 ELSE 0)
               + RoundHalfEven(Cardinality(PresentTracked) * 40,
                               Cardinality(TrackedHeaders))
               + (IF facts.http_resources = 0 THEN 20 ELSE 0)
               + f

\* The SEO points but for the images.
SeoFixedPoints ==
    (IF facts.title_is_optimal_length THEN 20
     ELSE IF facts.title # "" THEN 10 ELSE 0)
  + (IF facts.meta_is_optimal_length THEN 15
     ELSE IF facts.meta_exists THEN 8 ELSE 0)
  + (IF facts.h1_count = 1 THEN 15 ELSE IF facts.h1_count >= 1 THEN 8 ELSE 0)
  + (IF facts.is_sufficient_content THEN 10 ELSE 0)
  + (IF facts.has_json_ld THEN 8 ELSE 0)
  + (IF facts.has_microdata THEN 4 ELSE 0)
  + (IF facts.has_opengraph THEN 3 ELSE 0)
  + (IF facts.is_indexable THEN 5 ELSE 0)
  + (IF facts.canonical_exists THEN 10 ELSE 0)

\* C17 as stated: the SEO score is the sum of the title, description, H1,
\* content, structured-data, robots and canonical points and of
\* round(imagesWithAlt / totalImages * 10) when there are images.
C17_SeoTableRound ==
  (pc = "scored" /\ scorer = "seo") =>
    score = SeoFixedPoints
          + (IF facts.total_images > 0
               THEN RoundHalfEven(facts.images_with_alt * 10,
                                  facts.total_images)
               ELSE 0)

\* C17 amended: the same sum with the image points cut to an integer, the
\* floor of imagesWithAlt / totalImages * 10.
C17_SeoTableFloor ==
  (pc = "scored" /\ scorer = "seo") =>
    score = SeoFixedPoints
          + (IF facts.total_images > 0
               THEN (facts.images_with_alt * 10) \div facts.total_images
               ELSE 0)

\* No title, no description, three H1 and two of three images with alt:
\* 0 + 0 + 8 and 6 for the images.
C17_Witness ==
  /\ pc = "scored"
  /\ scorer = "seo"
  /\ facts.title = ""
  /\ ~facts.meta_exists
  /\ facts.h1_count = 3
  /\ facts.total_images = 3
  /\ facts.images_with_alt = 2
  /\ SeoFixedPoints = 8
  /\ score = 14

\* The points of a tier table for the size of the HTML in hundredths of a
\* KB and for the number of requests.
SizeTier(kb) ==
  IF kb < 10000 THEN 20 ELSE IF kb < 50000 THEN 15
  ELSE IF kb < 100000 THEN 10 ELSE 5
RequestTier(n) ==
  IF n < 50 THEN 35 ELSE IF n < 100 THEN 25 ELSE IF n < 150 THEN 15 ELSE 5

\* C18: the performance score is the sum of the size tier, the image
\* optimisation, a CSS and a JS minification contribution of at most 10
\* each (the minified ratio times 10, 10 without external resources of the
\* type) and the request tier.
C18_PerformanceTable ==
  (pc = "scored" /\ scorer = "performance") =>
    \E i \in 0..25, c \in 0..10, j \in 0..10 :
      /\ IF facts.total_images = 0 THEN i = 25
         ELSE Within(i, (facts.lazy_loaded_images + facts.responsive_images)
                          * 25, 2 * facts.total_images)
      /\ IF facts.external_stylesheets = 0 THEN c = 10
         ELSE Within(c, facts.minified_css * 10, facts.external_stylesheets)
      /\ IF facts.external_scripts = 0 THEN j = 10
         ELSE Within(j, facts.minified_js * 10, facts.external_scripts)
      /\ score = SizeTier(facts.html_size_kb) + i + c + j
               + RequestTier(facts.total_requests_estimate)

\* C19: the accessibility score is the sum of the alt-text ratio times 25
\* (25 without images), the link-text ratio times 20 (0 without links), 20
\* for one H1 or 10 for several, 15 for lang, 5 for an aria-label, 5 for a
\* role, and 10, 5 or 0 for forms that all, partly or never have a label (10
\* without forms).
C19_AccessibilityTable ==
  (pc = "scored" /\ scorer = "accessibility") =>
    \E i \in 0..25, l \in 0..20 :
      /\ IF facts.total_images = 0 THEN i = 25
         ELSE Within(i, facts.images_with_alt * 25, facts.total_images)
      /\ facts.images_with_alt = facts.total_images => i = 25
      /\ IF facts.total_links = 0 THEN l = 0
         ELSE Within(l, facts.links_with_text * 20, facts.total_links)
      /\ score = i + l
               + (IF facts.h1_count = 1 THEN 20
                  ELSE IF facts.h1_count >= 1 THEN 10 ELSE 0)
               + (IF facts.html_has_lang THEN 15 ELSE 0)
               + (IF facts.elements_with_aria_label > 0 THEN 5 ELSE 0)
               + (IF facts.elements_with_role > 0 THEN 5 ELSE 0)
               + (IF facts.total_forms = 0 THEN 10
                  ELSE IF facts.forms_with_labels = facts.total_forms THEN 10
                  ELSE IF facts.forms_with_labels > 0 THEN 5 ELSE 0)

\* Ten images, all with alt text, on a page without links: 25 for the
\* images, 0 for the links and 10 for the absence of forms.
C19_Witness ==
  /\ pc = "scored"
  /\ scorer = "accessibility"
  /\ facts.total_images = 10
  /\ facts.images_with_alt = 10
  /\ facts.total_links = 0
  /\ facts.h1_count = 0
  /\ ~facts.html_has_lang
  /\ facts.elements_with_aria_label = 0
  /\ facts.elements_with_role = 0
  /\ facts.total_forms = 0
  /\ score = 35

\* C20: the content score is the sum of the word-count tier, 10 for one H1,
\* 10 for more than 3 headings, the diversity points capped at 25, the
\* text-density tier and the reading-time tier.
C20_ContentTable ==
  (pc = "scored" /\ scorer = "content") =>
    LET diversity == (IF facts.images > 0 THEN 8 ELSE 0)
                   + (IF facts.videos > 0 THEN 8 ELSE 0)
                   + (IF facts.total_lists > 0 THEN 5 ELSE 0)
                   + (IF facts.total_tables > 0 THEN 4 ELSE 0)
        minutes == facts.reading_time
    IN  score =
            (CASE facts.word_count >= 1000 -> 25
               [] facts.word_count \in 500..999 -> 20
               [] facts.word_count \in 300..499 -> 15
               [] facts.word_count \in 100..299 -> 10
               [] OTHER -> 5)
          + (IF facts.h1_count = 1 THEN 10 ELSE 0)
          + (IF facts.total_headings > 3 THEN 10 ELSE 0)
          + (IF diversity > 25 THEN 25 ELSE diversity)
          + (CASE facts.text_density > 100 -> 15
               [] facts.text_density \in 51..100 -> 10
               [] OTHER -> 5)
          + (CASE minutes \in 2..10 -> 15
               [] minutes = 1 \/ minutes \in 11..15 -> 10
               [] OTHER -> 5)

\* A page of exactly 1000 words with one H1, every kind of content and a
\* text density over 0.10 scores 25 + 10 + 25 + 15 + 15.
C20_Witness ==
  /\ pc = "scored"
  /\ scorer = "content"
  /\ facts.word_count = 1000
  /\ facts.reading_time = 5
  /\ facts.h1_count = 1
  /\ facts.total_headings = 1
  /\ facts.images > 0 /\ facts.videos > 0
  /\ facts.total_lists > 0 /\ facts.total_tables > 0
  /\ facts.text_density = 101
  /\ score = 90

(***************************************************************************)
(* The mobile table.                                                       *)
(***************************************************************************)
\* The points of the viewport meta of the record.
ViewportTier ==
  CASE facts.viewport_is_responsive -> 40
    [] facts.viewport_exists /\ ~facts.viewport_is_responsive -> 20
    [] OTHER -> 0

\* C21: the mobile score is 40 for a responsive viewport meta (20 for one
\* that is not responsive, 0 without one), plus 20 for a touch icon, plus
\* 20 for an image with srcset, plus 20 for a flexible-layout class, each
\* of the four whatever the other three are.
C21_MobileTable ==
  (pc = "scored" /\ scorer = "mobile") =>
    /\ score = ViewportTier
             + 20 * Cardinality({k \in {"touch_icons", "responsive_images",
                                        "flexible_layouts"} : facts[k] > 0})
    /\ \A other \in MobileFacts :
         (/\ other.viewport_exists = facts.viewport_exists
          /\ other.viewport_is_responsive = facts.viewport_is_responsive
          /\ other.responsive_images = facts.responsive_images
          /\ other.flexible_layouts = facts.flexible_layouts)
         => FinalScore(MobilePoints(other)) - score
              = (IF other.touch_icons > 0 THEN 20 ELSE 0)
              - (IF facts.touch_icons > 0 THEN 20 ELSE 0)

\* A page without a viewport meta that has a touch icon and a flexible
\* layout but no srcset image: 0 + 20 + 0 + 20.
C21_Witness ==
  /\ pc = "scored"
  /\ scorer = "mobile"
  /\ ~facts.viewport_exists
  /\ facts.touch_icons > 0
  /\ facts.responsive_images = 0
  /\ facts.flexible_layouts > 0
  /\ score = 40

(***************************************************************************)
(* The scorers on a record that lacks a field.  The records are Python     *)
(* dicts read by subscript: d[k] raises KeyError when k is not a key of d, *)
(* and a / b raises ZeroDivisionError when b is 0.                          *)
(***************************************************************************)
\* d[k] where d has the key, dflt where the subscript has raised already.
Val(d, k, dflt) == IF k \in DOMAIN d THEN d[k] ELSE dflt

\* The keys each scorer subscripts on its way through the record d, the
\* keys of a branch only when the branch is taken.
SeoReads(d) ==
  {"title_is_optimal_length", "meta_is_optimal_length", "proper_h1_usage",
   "total_images", "is_sufficient_content", "has_json_ld", "has_microdata",
   "has_opengraph", "is_indexable", "canonical_exists"}
  \cup (IF Val(d, "title_is_optimal_length", TRUE) THEN {} ELSE {"title"})
  \cup (IF Val(d, "meta_is_optimal_length", TRUE) THEN {}
        ELSE {"meta_exists"})
  \cup (IF Val(d, "proper_h1_usage", TRUE) THEN {} ELSE {"h1_count"})
  \cup (IF Val(d, "total_images", 0) > 0 THEN {"images_with_alt"} ELSE {})

AccessibilityReads(d) ==
  {"total_images", "total_links", "proper_h1_usage", "html_has_lang",
   "elements_with_aria_label", "elements_with_role", "total_forms"}
  \cup (IF Val(d, "total_images", 0) > 0 THEN {"images_with_alt"} ELSE {})
  \cup (IF Val(d, "total_links", 0) > 0 THEN {"links_with_text"} ELSE {})
  \cup (IF Val(d, "proper_h1_usage", TRUE) THEN {} ELSE {"h1_count"})
  \cup (IF Val(d, "total_forms", 0) > 0 THEN {"forms_with_labels"} ELSE {})

PerformanceReads(d) ==
  {"html_size_kb", "total_images", "minified_css", "minified_js",
   "external_stylesheets", "external_scripts", "total_requests_estimate"}
  \cup (IF Val(d, "total_images", 0) > 0
          THEN {"lazy_loaded_images", "responsive_images"} ELSE {})

MobileReads(d) ==
  {"viewport_is_responsive", "touch_icons", "responsive_images",
   "flexible_layouts"}
  \cup (IF Val(d, "viewport_is_responsive", TRUE) THEN {}
        ELSE {"viewport_exists"})

SecurityReads(d) ==
  {"https_usage", "security_headers", "http_resources", "total_forms"}
  \cup (IF Val(d, "total_forms", 0) = 0 THEN {}
        ELSE {"forms_with_https_action"})

ContentReads(d) ==
  {"word_count", "proper_h1_usage", "total_headings", "images", "videos",
   "total_lists", "total_tables", "text_density", "reading_time"}

Reads(name, d) ==
  CASE name = "seo" -> SeoReads(d)
    [] name = "accessibility" -> AccessibilityReads(d)
    [] name = "performance" -> PerformanceReads(d)
    [] name = "mobile" -> MobileReads(d)
    [] name = "security" -> SecurityReads(d)
    [] name = "content" -> ContentReads(d)

\* A subscript of the scorer finds no key.
KeyError(name, d) == \E k \in Reads(name, d) : k \notin DOMAIN d

\* The division without a test of its divisor: header_count /
\* len(security_headers).  Every other division of the scorers is behind
\* "if total > 0".
ZeroDivisionError(name, d) ==
  /\ name = "security"
  /\ "security_headers" \in DOMAIN d
  /\ DOMAIN d.security_headers = {}

Raises(name, d) == KeyError(name, d) \/ ZeroDivisionError(name, d)

\* The record d without the fields of a set.
Without(d, missing) == [k \in DOMAIN d \ missing |-> d[k]]

\* The security record that tracks the headers of a set of keys only.
Tracking(d, keys) ==
  [d EXCEPT !.security_headers = [k \in keys |-> d.security_headers[k]]]

\* The records of a page without images, links, forms, headings, lists and
\* tables, one set for each scorer; the security records are those of a
\* page without forms, tracking any of the four headers.
EmptyPageFacts(name) ==
  CASE name = "seo" ->
         {f \in SeoFacts : f.total_images = 0 /\ f.h1_count = 0}
    [] name = "accessibility" ->
         {f \in AccessibilityFacts :
            f.total_images = 0 /\ f.total_links = 0 /\ f.total_forms = 0}
    [] name = "performance" ->
         {f \in PerformanceFacts :
            /\ f.total_images = 0
            /\ f.external_stylesheets = 0
            /\ f.external_scripts = 0}
    [] name = "mobile" -> MobileFacts
    [] name = "security" ->
         {Tracking(analyze_security(TRUE, p, r, <<0, 0>>), keys) :
            p \in SUBSET TrackedHeaders, r \in Counts,
            keys \in SUBSET {SecurityHeaderKeys[i] :
                               i \in DOMAIN SecurityHeaderKeys}}
    [] name = "content" ->
         {f \in ContentFacts :
            /\ f.total_headings = 0
            /\ f.images = 0 /\ f.videos = 0
            /\ f.total_lists = 0 /\ f.total_tables = 0}

Scorers ==
  {"seo", "accessibility", "performance", "mobile", "security", "content"}

\* A scorer is about to run on the record of an empty page that lacks at
\* most one field.
InitTotal ==
  /\ scorer \in Scorers
  /\ \E f \in EmptyPageFacts(scorer) :
       \E missing \in {{}} \cup {{k} : k \in DOMAIN f} :
         facts = Without(f, missing)
  /\ is_ssl = TRUE
  /\ headers = EmptyMap
  /\ pc = "facts"
  /\ raw = 0
  /\ score = 0
  /\ html_content = <<>>
  /\ js_data = [frameworks |-> EmptyMap, libraries |-> EmptyMap]
  /\ order = CatalogueOrder
  /\ idx = 1
  /\ detected = EmptyMap
  /\ confidence = 0
  /\ evidence = <<>>
  /\ version = None
  /\ tech_stack = EmptyMap
  /\ key_findings = EmptyMap
  /\ recommendations = <<>>
  /\ Idle

\* The scorer returns its score.
ScorerReturns ==
  /\ ~Raises(scorer, facts)
  /\ NextScore

\* The scorer ends in an exception.
ScorerRaises ==
  /\ pc = "facts"
  /\ Raises(scorer, facts)
  /\ pc' = "raised"
  /\ UNCHANGED scoreVars
  /\ UNCHANGED detectVars
  /\ UNCHANGED reportVars

NextTotal ==
  \/ ScorerReturns
  \/ ScorerRaises

SpecTotal == InitTotal /\ [][NextTotal]_vars

\* C22: a scorer handed a record with a missing fact, or with a zero
\* denominator (no tracked security header, no image, no form), returns a
\* score: it never ends in an exception.
C22_ScorersTotal == pc # "raised"

(***************************************************************************)
(* _detect_technologies over the catalogue in another order.               *)
(***************************************************************************)
\* The catalogue from its last signature to its first.
ReversedOrder ==
  [i \in DOMAIN tech_signatures |-> Len(tech_signatures) + 1 - i]

\* The catalogue from signature k + 1 on, the first k signatures last.
RotatedOrder(k) ==
  [i \in DOMAIN tech_signatures |-> ((i - 1 + k) % Len(tech_signatures)) + 1]

\* Orders of self.tech_signatures: that of the catalogue, its reverse, and
\* the rotations that start at the analytics and at the library signatures.
Orders == {CatalogueOrder, ReversedOrder, RotatedOrder(14), RotatedOrder(21)}

\* detect is about to run over the catalogue in one of the orders.
InitPermuted ==
  /\ order \in Orders
  /\ DetectStarts

SpecPermuted == InitPermuted /\ [][Next]_vars

\* The signatures that reach the threshold on the input of this run when
\* evaluated alone, and the mapping of their names to their Detections.
EmittedAlone ==
  {i \in DOMAIN tech_signatures : ~Alone(i).raised /\ Emits(Alone(i))}
IsolatedMapping ==
  [name \in {tech_signatures[i].name : i \in EmittedAlone} |->
     LET i == CHOOSE j \in EmittedAlone : tech_signatures[j].name = name
     IN  Detection(tech_signatures[i], Alone(i))]

\* C23: each signature is scored in isolation, so that in whatever order
\* the catalogue is evaluated, the mapping the call has built when it ends
\* takes the name of every signature that reaches the threshold alone, and
\* of no other, to the Detection of that signature alone.
C23_SameMappingInAnyOrder == RunEnded => detected = IsolatedMapping

(***************************************************************************)
(* Calls of detect and of the scorers, one after the other on one          *)
(* CompleteWebScraper, for the same page and for other pages.  What a call *)
(* leaves in its locals is still in the variables when the next call       *)
(* starts.                                                                 *)
(***************************************************************************)
MaxCalls == 3     \* calls made on the scraper

\* The loop of line 680 from position i on with the mapping d: the position
\* and the locals of the last iteration, the mapping, and whether the call
\* ends with re.error.
RECURSIVE DetectLoop(_, _, _, _, _, _)
DetectLoop(i, d, last, html, h, js) ==
  IF i > Len(order)
    THEN [raised |-> FALSE, idx |-> i, mapping |-> d, last |-> last]
  ELSE LET sig == Signature(i)
           st == EvaluateSignature(sig, html, h, js)
       IN  IF st.raised
             THEN [raised |-> TRUE, idx |-> i, mapping |-> d, last |-> st]
           ELSE DetectLoop(i + 1,
                           IF Emits(st)
                             THEN Put(d, sig.name, Detection(sig, st))
                             ELSE d,
                           st, html, h, js)

\* _detect_technologies as one call: detected = {} (line 677), then the
\* loop.
detect_technologies(html, h, js) ==
  DetectLoop(1, EmptyMap,
             [raised |-> FALSE, confidence |-> 0, evidence |-> <<>>,
              version |-> None],
             html, h, js)

\* What the caller of _detect_technologies gets: the mapping, or re.error.
DetectOutput(r) == IF r.raised THEN "re.error" ELSE r.mapping

\* The local score kept from the call before.
LocalScoreKept(previous) == previous

\* score = 0, the first statement of every scorer.
LocalScore(previous) == 0

\* The points a scorer adds to its local score.
PointsOf(name, d) ==
  CASE name = "seo" -> SeoPoints(d)
    [] name = "accessibility" -> AccessibilityPoints(d)
    [] name = "performance" -> PerformancePoints(d)
    [] name = "mobile" -> MobilePoints(d)
    [] name = "security" -> SecurityPoints(d)
    [] name = "content" -> ContentPoints(d)

\* The inputs of detect: an empty page, a WordPress page, and a page with
\* the React global.
DetectInputs ==
  {[html |-> <<>>, headers |-> EmptyMap,
    js |-> [frameworks |-> EmptyMap, libraries |-> EmptyMap]],
   [html |-> <<"/wp-content/themes/x.css", "wp-includes">>,
    headers |-> [k \in {"server"} |-> "nginx"],
    js |-> [frameworks |-> EmptyMap, libraries |-> EmptyMap]],
   [html |-> <<"data-reactroot">>, headers |-> EmptyMap,
    js |-> [frameworks |-> [k \in {"React"} |-> "detected"],
            libraries |-> EmptyMap]]}

\* The inputs of a scorer: the record of a page without elements and the
\* record of a page with one element of each kind.
ScorerInputs(name) ==
  CASE name = "seo" ->
         {extract_seo_analysis([present |-> FALSE, text |-> "", raw_len |-> 0],
                               [present |-> FALSE, len |-> 0], 0, <<0, 0>>,
                               FALSE, FALSE, FALSE, FALSE, TRUE, FALSE),
          extract_seo_analysis([present |-> TRUE, text |-> "Home",
                                raw_len |-> 4],
                               [present |-> TRUE, len |-> 140], 1, <<1, 1>>,
                               TRUE, TRUE, FALSE, TRUE, TRUE, TRUE)}
    [] name = "accessibility" ->
         {analyze_accessibility(<<0, 0>>, <<0, 0>>, 0, FALSE, 0, 0, <<0, 0>>),
          analyze_accessibility(<<1, 1>>, <<1, 1>>, 1, TRUE, 1, 1, <<1, 1>>)}
    [] name = "performance" ->
         {analyze_performance([html_size |-> 2048, other |-> 0], 0, 0, 0,
                              [ext_min |-> 0, ext_plain |-> 0, local_min |-> 0],
                              [ext_min |-> 0, ext_plain |-> 0, local_min |-> 0]),
          analyze_performance([html_size |-> 204800, other |-> 50], 1, 1, 0,
                              [ext_min |-> 1, ext_plain |-> 0, local_min |-> 0],
                              [ext_min |-> 0, ext_plain |-> 1, local_min |-> 0])}
    [] name = "mobile" ->
         {analyze_mobile(None, 0, 0, 0),
          analyze_mobile("width=device-width, initial-scale=1", 1, 1, 1)}
    [] name = "security" ->
         {analyze_security(FALSE, {}, 0, <<0, 0>>),
          analyze_security(TRUE, TrackedHeaders, 1, <<1, 1>>)}
    [] name = "content" ->
         {extract_content_analysis(0, 0, 0, 0, 0, 0, 0, 50),
          extract_content_analysis(400, 1, 3, 1, 1, 1, 1, 101)}

\* A scraper on which no call was made yet.
InitCalls ==
  /\ pc = "idle"
  /\ html_content = <<>>
  /\ headers = EmptyMap
  /\ js_data = [frameworks |-> EmptyMap, libraries |-> EmptyMap]
  /\ order = CatalogueOrder
  /\ idx = 1
  /\ detected = EmptyMap
  /\ confidence = 0
  /\ evidence = <<>>
  /\ version = None
  /\ scorer = "none"
  /\ facts = EmptyMap
  /\ raw = 0
  /\ score = 0
  /\ is_ssl = TRUE
  /\ tech_stack = EmptyMap
  /\ key_findings = EmptyMap
  /\ recommendations = <<>>
  /\ Idle

\* One call of _detect_technologies from its entry to its end.
CallDetect ==
  /\ Len(log) < MaxCalls
  /\ \E in \in DetectInputs :
       LET r == detect_technologies(in.html, in.headers, in.js)
       IN  /\ html_content' = in.html
           /\ headers' = in.headers
           /\ js_data' = in.js
           /\ idx' = r.idx
           /\ detected' = r.mapping
           /\ confidence' = r.last.confidence
           /\ evidence' = r.last.evidence
           /\ version' = r.last.version
           /\ pc' = IF r.raised THEN "raised" ELSE "returned"
           /\ log' = Append(log, [fn |-> "detect", input |-> in,
                                  output |-> DetectOutput(r)])
  /\ UNCHANGED <<order, overall_scores>>
  /\ UNCHANGED scoreVars
  /\ UNCHANGED <<is_ssl, tech_stack, key_findings, recommendations>>
  /\ UNCHANGED <<batchVars, pageVars>>

\* One call of a scorer from its entry to its return.
CallScorer ==
  /\ Len(log) < MaxCalls
  /\ \E name \in Scorers :
       \E d \in ScorerInputs(name) :
         /\ scorer' = name
         /\ facts' = d
         /\ raw' = LocalScore(raw) + PointsOf(name, d)
         /\ score' = FinalScore(raw')
         /\ pc' = "scored"
         /\ log' = Append(log, [fn |-> name, input |-> d, output |-> score'])
  /\ UNCHANGED overall_scores
  /\ UNCHANGED detectVars
  /\ UNCHANGED <<is_ssl, tech_stack, key_findings, recommendations>>
  /\ UNCHANGED <<batchVars, pageVars>>

NextCalls == CallDetect \/ CallScorer

SpecCalls == InitCalls /\ [][NextCalls]_vars

WithSeoScore(d) ==
  [k \in DOMAIN d \cup {"seo_score"} |->
     IF k = "seo_score" THEN FinalScore(SeoPoints(d)) ELSE d[k]]

\* complete_analysis (lines 369-430) as _create_summary reads it: the
\* analyses a, the content analysis, and page_info with is_ssl (line 467).
CompleteAnalysis(a, content, ssl) ==
  [page_info |-> [is_ssl |-> ssl],
   seo_analysis |-> WithSeoScore(a.seo_analysis),
   performance_analysis |-> a.performance_analysis,
   accessibility_analysis |-> a.accessibility_analysis,
   mobile_analysis |-> a.mobile_analysis,
   security_analysis |-> a.security_analysis,
   content_analysis |-> content,
   structured_data |-> a.structured_data]

\* The analysis whose security record holds its own score.
AnalysedWithScore(analysis) ==
  [analysis EXCEPT !.security_analysis =
     [k \in DOMAIN @ \cup {"security_score"} |->
        IF k = "security_score" THEN FinalScore(SecurityPoints(@))
        ELSE @[k]]]

\* The analysis dict when _create_summary returns: neither _create_summary
\* nor a scorer nor _generate_recommendations assigns to it, to a record in
\* it, or to a list in it.
Analysed(analysis) == analysis

\* summary['overall_scores'] (lines 1429-1436).
OverallScores(analysis) ==
  [seo_score |-> Val(analysis.seo_analysis, "seo_score", 0),
   accessibility_score |->
     FinalScore(AccessibilityPoints(analysis.accessibility_analysis)),
   performance_score |->
     FinalScore(PerformancePoints(analysis.performance_analysis)),
   mobile_score |-> FinalScore(MobilePoints(analysis.mobile_analysis)),
   security_score |-> FinalScore(SecurityPoints(analysis.security_analysis)),
   content_quality_score |->
     FinalScore(ContentPoints(analysis.content_analysis))]

\* summary['key_findings'] (lines 1437-1447) but for the counts of images
\* and links.
SummaryKeyFindings(analysis, ts) ==
  [has_cms |-> KeyFindings(ts).has_cms,
   main_cms |-> KeyFindings(ts).main_cms,
   has_analytics |-> KeyFindings(ts).has_analytics,
   has_structured_data |-> analysis.structured_data.has_structured_data,
   is_mobile_friendly |-> analysis.mobile_analysis.viewport_is_responsive,
   has_ssl |-> analysis.page_info.is_ssl,
   content_length |-> analysis.content_analysis.word_count]

\* The mappings detect hands to _analyze_tech_stack here: none, WordPress,
\* Google Analytics.
SummaryDetections ==
  {EmptyMap,
   [n \in {"WordPress"} |-> SampleDetection(tech_signatures[1])],
   [n \in {"Google Analytics"} |-> SampleDetection(tech_signatures[15])]}

\* The content analyses here: a page without text and an article.
SummaryContents ==
  {extract_content_analysis(0, 0, 0, 0, 0, 0, 0, 50),
   extract_content_analysis(1000, 1, 3, 1, 1, 1, 1, 101)}

\* complete_analysis is built for some page, served over http or https.
InitSummary ==
  /\ is_ssl \in BOOLEAN
  /\ headers \in {ReceivedHeaders(p) : p \in SUBSET TrackedHeaders}
  /\ detected \in SummaryDetections
  /\ tech_stack = analyze_tech_stack(detected, headers)
  /\ \E h1 \in {0, 1}, img \in RecImages, viewport \in Viewports,
        sd \in RecStructured, content \in SummaryContents :
       facts = CompleteAnalysis(
                 Analysis([present |-> TRUE, text |-> "Home", raw_len |-> 4],
                          [present |-> FALSE, len |-> 0], h1,
                          [html_size |-> 2048, other |-> 0], img, TRUE,
                          viewport, is_ssl, headers, sd),
                 content, is_ssl)
  /\ pc = "assembled"
  /\ html_content = <<>>
  /\ js_data = [frameworks |-> EmptyMap, libraries |-> EmptyMap]
  /\ order = CatalogueOrder
  /\ idx = 1
  /\ confidence = 0
  /\ evidence = <<>>
  /\ version = None
  /\ scorer = "none"
  /\ raw = 0
  /\ score = 0
  /\ key_findings = EmptyMap
  /\ recommendations = <<>>
  /\ Idle

\* _create_summary from its entry to its return.
CreateSummary ==
  /\ pc = "assembled"
  /\ overall_scores' = OverallScores(facts)
  /\ key_findings' = SummaryKeyFindings(facts, tech_stack)
  /\ recommendations' = generate_recommendations(facts)
  /\ facts' = Analysed(facts)
  /\ pc' = "summed_up"
  /\ UNCHANGED <<scorer, raw, score>>
  /\ UNCHANGED <<is_ssl, tech_stack, log>>
  /\ UNCHANGED <<batchVars, pageVars>>
  /\ UNCHANGED detectVars

NextSummary == CreateSummary

SpecSummary == InitSummary /\ [][NextSummary]_vars

SecurityRest ==
  LET d == facts.security_analysis
      present == {k \in DOMAIN d.security_headers : d.security_headers[k]}
  IN    (Cardinality(present) * 40) \div Cardinality(DOMAIN d.security_headers)
      + (IF d.http_resources = 0 THEN 20 ELSE 0)
      + (IF d.total_forms = 0 THEN 10
         ELSE (d.forms_with_https_action * 10) \div d.total_forms)

\* C30: the HTTPS fact is the same all over the report: the security score
\* holds the 30 points for HTTPS if and only if key_findings.has_ssl is
\* true, that is if the final URL starts with https://; a page served over
\* plain http never gets them.
C30_HttpsConsistent ==
  pc = "summed_up" =>
    /\ key_findings.has_ssl = is_ssl
    /\ (overall_scores.security_score - SecurityRest = 30)
         <=> key_findings.has_ssl
    /\ ~is_ssl => overall_scores.security_score = SecurityRest

(***************************************************************************)
(* analyze_websites_batch and complete_website_analysis.  A step runs from *)
(* one await to the next; the browser decides how an await ends.           *)
(***************************************************************************)
MaxUrls == 2      \* URLs of one batch request

Urls == {"http://a.example/", "https://b.example/"}

\* request.urls.
Requests == UNION {[1..n -> Urls] : n \in 0..MaxUrls}

\* A local that is not bound yet.
Unbound == "<unbound>"

\* Exceptions: HTTPException(status_code, detail), and the errors of the
\* browser and of re.
HTTPException(status_code, detail) ==
  [type |-> "HTTPException", status_code |-> status_code, detail |-> detail]
Error(type, message) == [type |-> type, detail |-> message]

\* str(e).
Str(e) ==
  IF e.type = "HTTPException"
    THEN ToString(e.status_code) \o ": " \o e.detail
    ELSE e.detail

\* The try of lines 299-303 with an except that also takes a navigation
\* without response.
FallbackOnNoResponse(outcome) == outcome \in {"raised", "none"}

\* Lines 299-303: the second page.goto is made in the except clause of the
\* first.
Fallback(outcome) == outcome = "raised"

\* The except clause without page.close().
LeavePage(p, n) == n

\* Lines 440-441: the open pages after the except clause of a call whose
\* local page is p, n pages being open.
ClosePage(p, n) == IF p = "open" THEN n - 1 ELSE n

\* A loop that ends at the first URL whose analysis raised.
BreakAtError(i, n) == n + 1

\* Lines 1752-1763: the position of the loop after the except clause has
\* appended the error entry of URL i of n.
AfterError(i, n) == i + 1

\* The entries of results (lines 1755 and 1757-1763).
AnalysisEntry(url) == [url |-> url, status_code |-> 200]
ErrorEntry(url, e) ==
  [url |-> url, error |-> Str(e), processing_time |-> 0, status_code |-> 0]

\* len([r for r in results if 'error' in r]).
Failed(rs) == Cardinality({i \in DOMAIN rs : "error" \in DOMAIN rs[i]})
Successful(rs) ==
  Cardinality({i \in DOMAIN rs : "error" \notin DOMAIN rs[i]})

\* The state after 'async with CompleteWebScraper() as scraper' of line 1751
\* for some request: the browser runs and the context holds no page.
InitBatch ==
  /\ urls \in Requests
  /\ url_index = 1
  /\ results = <<>>
  /\ batch_response = None
  /\ page = Unbound
  /\ open_pages = 0
  /\ attempts = <<>>
  /\ response = Unbound
  /\ extracted = FALSE
  /\ error = NoException
  /\ pc = "loop"
  /\ overall_scores = EmptyMap
  /\ log = <<>>
  /\ html_content = <<>>
  /\ headers = EmptyMap
  /\ js_data = [frameworks |-> EmptyMap, libraries |-> EmptyMap]
  /\ order = CatalogueOrder
  /\ idx = 1
  /\ detected = EmptyMap
  /\ confidence = 0
  /\ evidence = <<>>
  /\ version = None
  /\ scorer = "none"
  /\ facts = EmptyMap
  /\ raw = 0
  /\ score = 0
  /\ is_ssl = TRUE
  /\ tech_stack = EmptyMap
  /\ key_findings = EmptyMap
  /\ recommendations = <<>>

notBatch ==
  <<order, idx, detected, confidence, evidence, version, scoreVars, is_ssl,
    tech_stack, key_findings, recommendations, summaryVars>>

\* Lines 1752-1754 and 286: the loop calls complete_website_analysis for
\* the next URL, and new_page opens a page.
NewPageOpens ==
  /\ pc = "loop"
  /\ url_index <= Len(urls)
  /\ page' = "open"
  /\ open_pages' = open_pages + 1
  /\ attempts' = <<>>
  /\ response' = Unbound
  /\ extracted' = FALSE
  /\ error' = NoException
  /\ pc' = "goto"
  /\ UNCHANGED <<html_content, headers, js_data>>
  /\ UNCHANGED batchVars
  /\ UNCHANGED notBatch

\* The same with a new_page that raises: page stays unbound.
NewPageFails ==
  /\ pc = "loop"
  /\ url_index <= Len(urls)
  /\ page' = Unbound
  /\ attempts' = <<>>
  /\ response' = Unbound
  /\ extracted' = FALSE
  /\ error' = Error("Error", "new_page failed")
  /\ pc' = "except"
  /\ UNCHANGED <<html_content, headers, js_data, open_pages>>
  /\ UNCHANGED batchVars
  /\ UNCHANGED notBatch

\* What a page.goto does: it raises, or returns None or a response.
GotoOutcomes == {"raised", "none", "response"}

\* The statements after a page.goto has returned r (lines 305-306).
AfterGoto(r) ==
  /\ response' = r
  /\ IF r = None
       THEN /\ error' = HTTPException(400, "Failed to load page")
            /\ pc' = "except"
       ELSE /\ error' = error
            /\ pc' = "extract"

\* Line 300: page.goto waiting for the network to be idle.
GotoNetworkIdle ==
  /\ pc = "goto"
  /\ \E outcome \in GotoOutcomes :
       /\ attempts' = Append(attempts, [wait_until |-> "networkidle",
                                        outcome |-> outcome])
       /\ IF Fallback(outcome)
            THEN /\ pc' = "fallback"
                 /\ UNCHANGED <<response, error>>
            ELSE AfterGoto(IF outcome = "none" THEN None ELSE "response")
  /\ UNCHANGED <<html_content, headers, js_data, page, open_pages, extracted>>
  /\ UNCHANGED batchVars
  /\ UNCHANGED notBatch

\* Line 303: page.goto waiting for DOMContentLoaded, in the except clause
\* of the first.
GotoDomContentLoaded ==
  /\ pc = "fallback"
  /\ \E outcome \in GotoOutcomes :
       /\ attempts' = Append(attempts, [wait_until |-> "domcontentloaded",
                                        outcome |-> outcome])
       /\ IF outcome = "raised"
            THEN /\ error' = Error("TimeoutError", "Timeout 30000ms exceeded")
                 /\ pc' = "except"
                 /\ UNCHANGED response
            ELSE AfterGoto(IF outcome = "none" THEN None ELSE "response")
  /\ UNCHANGED <<html_content, headers, js_data, page, open_pages, extracted>>
  /\ UNCHANGED batchVars
  /\ UNCHANGED notBatch

\* Lines 308-436: the page is read (an await of the page may raise), the
\* analyses are built, _analyze_tech_stack calling _detect_technologies,
\* and after the summary the page is closed and the analysis returned to
\* the loop, which appends it.
Extract ==
  /\ pc = "extract"
  /\ extracted' = TRUE
  /\ \E in \in DetectInputs, fails \in BOOLEAN :
       LET r == detect_technologies(in.html, in.headers, in.js)
       IN  /\ html_content' = in.html
           /\ headers' = in.headers
           /\ js_data' = in.js
           /\ IF fails
                THEN /\ error' = Error("Error", "page.content failed")
                     /\ pc' = "except"
                     /\ UNCHANGED <<page, open_pages, batchVars>>
              ELSE IF r.raised
                THEN /\ error' = Error("re.error",
                                       "missing ), unterminated subpattern")
                     /\ pc' = "except"
                     /\ UNCHANGED <<page, open_pages, batchVars>>
              ELSE /\ page' = "closed"
                   /\ open_pages' = open_pages - 1
                   /\ results' = Append(results,
                                        AnalysisEntry(urls[url_index]))
                   /\ url_index' = url_index + 1
                   /\ pc' = "loop"
                   /\ UNCHANGED <<error, urls, batch_response>>
  /\ UNCHANGED <<attempts, response>>
  /\ UNCHANGED notBatch

\* Lines 438-442 and 1756-1763: the except clause closes the page if it is
\* bound and raises HTTPException 500; the except clause of the loop
\* appends the error entry.
Except ==
  /\ pc = "except"
  /\ page' = IF page = "open" THEN "closed" ELSE page
  /\ open_pages' = ClosePage(page, open_pages)
  /\ error' = HTTPException(500, "Complete analysis failed: " \o Str(error))
  /\ results' = Append(results, ErrorEntry(urls[url_index], error'))
  /\ url_index' = AfterError(url_index, Len(urls))
  /\ pc' = "loop"
  /\ UNCHANGED <<html_content, headers, js_data, attempts, response,
                 extracted, urls, batch_response>>
  /\ UNCHANGED notBatch

\* Lines 86-92 and 1765-1771: after the last URL __aexit__ closes the
\* context, with every page still open in it, and the response is built.
ReturnBatch ==
  /\ pc = "loop"
  /\ url_index > Len(urls)
  /\ open_pages' = 0
  /\ batch_response' =
       [results |-> results,
        total_processed |-> Len(results),
        successful |-> Successful(results),
        failed |-> Failed(results)]
  /\ pc' = "done"
  /\ UNCHANGED <<html_content, headers, js_data, page, attempts, response,
                 extracted, error, urls, url_index, results>>
  /\ UNCHANGED notBatch

NextBatch ==
  \/ NewPageOpens
  \/ NewPageFails
  \/ GotoNetworkIdle
  \/ GotoDomContentLoaded
  \/ Extract
  \/ Except
  \/ ReturnBatch

SpecBatch == InitBatch /\ [][NextBatch]_vars

(***************************************************************************)
(* Properties of the batch and of the analysis of one URL.                 *)
(***************************************************************************)
\* A call of complete_website_analysis has ended and the next has not
\* begun: its locals are still at hand.
CallEnded == pc \in {"loop", "done"} /\ url_index > 1

\* The call raised, and it raised HTTPException with a status.
Raised == error # NoException
RaisedStatus(status_code) ==
  error.type = "HTTPException" /\ error.status_code = status_code

\* C26: the batch takes the URLs one at a time in the order of the request
\* and a failure for one URL does not stop the following ones: results
\* holds one entry for each URL in that order, an error entry for a URL
\* whose analysis raised and the analysis otherwise, and total_processed =
\* successful + failed = the number of URLs.
C26_BatchOneEntryPerUrl ==
  /\ pc \in {"loop", "done"} => Len(results) = url_index - 1
  /\ \A i \in DOMAIN results : results[i].url = urls[i]
  /\ CallEnded =>
       (("error" \in DOMAIN results[Len(results)]) <=> Raised)
  /\ pc = "done" =>
       /\ batch_response.results = results
       /\ Len(batch_response.results) = Len(urls)
       /\ batch_response.total_processed = Len(urls)
       /\ batch_response.total_processed =
            batch_response.successful + batch_response.failed
       /\ batch_response.failed =
            Cardinality({i \in DOMAIN results : "error" \in DOMAIN results[i]})

\* A batch of two URLs has ended: the first URL failed in the navigation,
\* the second was still analysed and failed later.
C26_Witness ==
  /\ pc = "done"
  /\ Len(urls) = 2
  /\ results[1].error =
       "500: Complete analysis failed: Timeout 30000ms exceeded"
  /\ results[2].url = urls[2]
  /\ "error" \in DOMAIN results[2]
  /\ results[2].error # results[1].error
  /\ batch_response.failed = 2

\* C27: every page complete_website_analysis opens is closed when the call
\* returns or raises, so that at most one page is open at any time of a
\* batch and none is open between two calls or after the batch.
C27_PagesClosed ==
  /\ open_pages <= 1
  /\ pc \in {"loop", "done"} => (open_pages = 0 /\ page # "open")

\* The first call of a batch has failed after the navigation, and its page
\* is closed.
C27_Witness ==
  /\ pc = "loop"
  /\ url_index = 2
  /\ extracted
  /\ Raised
  /\ page = "closed"
  /\ open_pages = 0

\* C28: a navigation that ends without a response makes
\* complete_website_analysis fail with status 400 and the detail "Failed to
\* load page"; status 500 is for the other failures.
C28_NoResponseIs400 ==
  CallEnded =>
    /\ response = None =>
         error = HTTPException(400, "Failed to load page")
    /\ RaisedStatus(500) => response # None

\* C29: the page is loaded waiting for the network to be idle first; a
\* second attempt, waiting for DOMContentLoaded, is made once if and only
\* if the first one raised; the extraction starts only after an attempt
\* has returned a response; and if the second attempt raises too the call
\* ends with an error and nothing is extracted.
C29_NavigationFallback ==
  LET n == Len(attempts)
  IN  /\ n <= 2
      /\ n >= 1 => attempts[1].wait_until = "networkidle"
      /\ n = 2 => /\ attempts[2].wait_until = "domcontentloaded"
                  /\ attempts[1].outcome = "raised"
      /\ (n >= 1 /\ attempts[1].outcome = "raised" /\ pc # "fallback")
           => n = 2
      /\ (pc = "extract" \/ extracted) =>
           /\ n >= 1
           /\ attempts[n].outcome = "response"
           /\ response = "response"
      /\ (n = 2 /\ attempts[2].outcome = "raised") =>
           /\ ~extracted
           /\ pc \in {"except", "loop", "done"}
           /\ Raised

\* The first attempt raised, the second returned a response, and the
\* extraction has run.
C29_Witness ==
  /\ Len(attempts) = 2
  /\ attempts[1].outcome = "raised"
  /\ attempts[2].outcome = "response"
  /\ extracted

====
